---- MODULE Spec2Model ----
(***************************************************************************)
(* A model of the RV32I simulator of riscv32i-sim: the register file, the  *)
(* memory, the control unit, the ALU and the Cpu that steps them through   *)
(* one fetch-decode-execute cycle per clock() call.                        *)
(*                                                                         *)
(* A 32-bit word (Rust u32) is the pair <<hi, lo>> of its two 16-bit       *)
(* halves, so that every operation keeps its 32-bit width.                 *)
(***************************************************************************)
EXTENDS Integers, Sequences, FiniteSets, TLC

VARIABLES memory, registers, control, alu, cycle_count, proto_cpu, proto_alu,
          debugger, trace, asm, twin, last, steps

vars == <<memory, registers, control, alu, cycle_count, proto_cpu, proto_alu,
         debugger, trace, asm, twin, last, steps>>

(***************************************************************************)
(* 32-bit words                                                            *)
(***************************************************************************)
Half == 65536

W(hi, lo) == <<hi, lo>>

Hi(w) == w[1]

Lo(w) == w[2]

\* the word of a natural below 2^31
Wd(n) == <<n \div Half, n % Half>>

\* `i as u32` for an i32 i
FromI32(i) == <<(i \div Half) % Half, i % Half>>

\* `w as i32`
ToI32(w) == IF Hi(w) >= 32768 THEN (Hi(w) - Half) * Half + Lo(w) ELSE Hi(w) * Half + Lo(w)

wrapping_add(a, b) ==
    LET lo == Lo(a) + Lo(b)
        hi == Hi(a) + Hi(b) + lo \div Half
    IN  <<hi % Half, lo % Half>>

wrapping_sub(a, b) ==
    LET lo == Lo(a) - Lo(b)
        hi == Hi(a) - Hi(b) + lo \div Half
    IN  <<hi % Half, lo % Half>>

RECURSIVE Bits16(_, _, _, _)
\* bitwise combination of two n-bit values (n a power of 2), bit by bit, by the
\* truth table f: the low half and the high half of the bits are combined apart
Bits16(f, x, y, n) ==
    IF n = 1 THEN f[x % 2][y % 2]
    ELSE LET h == 2 ^ (n \div 2)
         IN  Bits16(f, x % h, y % h, n \div 2)
             + h * Bits16(f, x \div h, y \div h, n \div 2)

TAnd == [x \in 0..1 |-> [y \in 0..1 |-> IF x = 1 /\ y = 1 THEN 1 ELSE 0]]

TOr == [x \in 0..1 |-> [y \in 0..1 |-> IF x = 1 \/ y = 1 THEN 1 ELSE 0]]

TXor == [x \in 0..1 |-> [y \in 0..1 |-> IF x # y THEN 1 ELSE 0]]

BitAnd(a, b) == <<Bits16(TAnd, Hi(a), Hi(b), 16), Bits16(TAnd, Lo(a), Lo(b), 16)>>

BitOr(a, b) == <<Bits16(TOr, Hi(a), Hi(b), 16), Bits16(TOr, Lo(a), Lo(b), 16)>>

BitXor(a, b) == <<Bits16(TXor, Hi(a), Hi(b), 16), Bits16(TXor, Lo(a), Lo(b), 16)>>

BitNot(a) == <<Half - 1 - Hi(a), Half - 1 - Lo(a)>>

\* w << n for n in 0..31: bits move from the low half into the high half
Shl(w, n) ==
    IF n >= 16
    THEN <<(Lo(w) % (2 ^ (32 - n))) * (2 ^ (n - 16)), 0>>
    ELSE <<(Hi(w) % (2 ^ (16 - n))) * (2 ^ n) + Lo(w) \div (2 ^ (16 - n)),
           (Lo(w) % (2 ^ (16 - n))) * (2 ^ n)>>

\* w >> n for n in 0..31, on the unsigned value: the vacated bits are 0
Shr(w, n) ==
    IF n >= 16
    THEN <<0, Hi(w) \div (2 ^ (n - 16))>>
    ELSE <<Hi(w) \div (2 ^ n), Lo(w) \div (2 ^ n) + (Hi(w) % (2 ^ n)) * (2 ^ (16 - n))>>

\* variant: no sign fill
SignFill_zero(w, k) == 0

\* the top k bits (k in 0..16) of a 16-bit half, set when w is negative as i32
SignFill(w, k) == IF Hi(w) >= 32768 THEN Half - 2 ^ (16 - k) ELSE 0

\* w >> n for n in 0..31, on the signed value: the vacated bits copy bit 31
Sar(w, n) ==
    IF n >= 16
    THEN <<SignFill(w, 16), Hi(w) \div (2 ^ (n - 16)) + SignFill(w, n - 16)>>
    ELSE <<Hi(w) \div (2 ^ n) + SignFill(w, n),
           Lo(w) \div (2 ^ n) + (Hi(w) % (2 ^ n)) * (2 ^ (16 - n))>>

\* unsigned a < b
LtU(a, b) == Hi(a) < Hi(b) \/ (Hi(a) = Hi(b) /\ Lo(a) < Lo(b))

\* variant: the signed comparison done on the unsigned values
LtS_unsigned(a, b) == LtU(a, b)

\* signed (a as i32) < (b as i32)
LtS(a, b) == ToI32(a) < ToI32(b)

(***************************************************************************)
(* Instruction: a 32-bit word and its field accessors                      *)
(***************************************************************************)
Instruction_new(word) == word

\* bits 6:0
opcode(inst) == Lo(inst) % 128

\* bits 11:7
rd(inst) == (Lo(inst) \div 128) % 32

\* bits 14:12
funct3(inst) == (Lo(inst) \div 4096) % 8

\* bits 19:15
rs1(inst) == Lo(inst) \div 32768 + (Hi(inst) % 16) * 2

\* bits 24:20
rs2(inst) == (Hi(inst) \div 16) % 32

\* bits 31:25
funct7(inst) == Hi(inst) \div 512

\* sign extension of an n-bit value v to an i32
SignExtend(v, n) == IF v >= 2 ^ (n - 1) THEN v - 2 ^ n ELSE v

\* bits 31:20, sign-extended
imm_i(inst) == SignExtend(Hi(inst) \div 16, 12)

\* bits 31:12 in place, the low 12 bits zero
imm_u(inst) == ToI32(W(Hi(inst), Lo(inst) - (Lo(inst) % 4096)))

\* {31:25, 11:7}, sign-extended
imm_s(inst) == SignExtend(funct7(inst) * 32 + rd(inst), 12)

\* imm_b with bit 7 of the word taken for bit 12 and bit 31 for bit 11
imm_b_bits_swapped(inst) ==
    SignExtend(((Lo(inst) \div 128) % 2) * 4096
               + (Hi(inst) \div 32768) * 2048
               + ((Hi(inst) \div 512) % 64) * 32
               + ((Lo(inst) \div 256) % 16) * 2, 13)

\* {31, 7, 30:25, 11:8, 0}, sign-extended
imm_b(inst) ==
    SignExtend((Hi(inst) \div 32768) * 4096
               + ((Lo(inst) \div 128) % 2) * 2048
               + ((Hi(inst) \div 512) % 64) * 32
               + ((Lo(inst) \div 256) % 16) * 2, 13)

\* {31, 19:12, 20, 30:21, 0}, sign-extended
imm_j(inst) ==
    SignExtend((Hi(inst) \div 32768) * 1048576
               + (Hi(inst) % 16) * 65536 + (Lo(inst) \div 4096) * 4096
               + ((Hi(inst) \div 16) % 2) * 2048
               + ((Hi(inst) \div 32) % 1024) * 2, 21)

(***************************************************************************)
(* InstructionEncoder: the inverse packing of the fields                   *)
(***************************************************************************)
\* funct7 | rs2 | rs1 | funct3 | rd | opcode
r_type(op, d, f3, s1, s2, f7) ==
    W(f7 * 512 + s2 * 16 + s1 \div 2, (s1 % 2) * 32768 + f3 * 4096 + d * 128 + op)

\* imm[11:0] | rs1 | funct3 | rd | opcode
i_type(op, d, f3, s1, imm) ==
    W((imm % 4096) * 16 + s1 \div 2, (s1 % 2) * 32768 + f3 * 4096 + d * 128 + op)

\* imm[11:5] | rs2 | rs1 | funct3 | imm[4:0] | opcode
s_type(op, f3, s1, s2, imm) ==
    r_type(op, imm % 32, f3, s1, s2, (imm % 4096) \div 32)

\* imm[12|10:5] | rs2 | rs1 | funct3 | imm[4:1|11] | opcode
b_type(op, f3, s1, s2, imm) ==
    LET u == imm % 8192
    IN  r_type(op, ((u \div 2) % 16) * 2 + ((u \div 2048) % 2), f3, s1, s2,
               (u \div 4096) * 64 + ((u \div 32) % 64))

\* imm[31:12] | rd | opcode
u_type(op, d, imm) ==
    W(Hi(FromI32(imm)), (Lo(FromI32(imm)) \div 4096) * 4096 + d * 128 + op)

\* imm[20|10:1|11|19:12] | rd | opcode
j_type(op, d, imm) ==
    LET u == imm % 2097152
    IN  W((u \div 1048576) * 32768 + ((u \div 2) % 1024) * 32
          + ((u \div 2048) % 2) * 16 + ((u \div 65536) % 16),
          ((u \div 4096) % 16) * 4096 + d * 128 + op)

(***************************************************************************)
(* ControlSignals and the ALU                                              *)
(***************************************************************************)
ControlSignals_new ==
    [alu_op |-> "PassA", alu_src |-> FALSE, mem_read |-> FALSE, mem_write |-> FALSE,
     mem_to_reg |-> FALSE, reg_write |-> FALSE, branch |-> FALSE, jump |-> FALSE]

Alu_new == [result |-> Wd(0), zero |-> FALSE]

\* b & 0x1F
ShiftAmount(b) == Lo(b) % 32

\* the value execute computes
AluValue(op, a, b) ==
    CASE op = "Add" -> wrapping_add(a, b)
      [] op = "Sub" -> wrapping_sub(a, b)
      [] op = "And" -> BitAnd(a, b)
      [] op = "Or" -> BitOr(a, b)
      [] op = "Xor" -> BitXor(a, b)
      [] op = "Sll" -> Shl(a, ShiftAmount(b))
      [] op = "Srl" -> Shr(a, ShiftAmount(b))
      [] op = "Sra" -> Sar(a, ShiftAmount(b))
      [] op = "Slt" -> IF LtS(a, b) THEN Wd(1) ELSE Wd(0)
      [] op = "Sltu" -> IF LtU(a, b) THEN Wd(1) ELSE Wd(0)
      [] op = "PassA" -> a
      [] op = "PassB" -> b

\* the Alu after execute(op, a, b); its result field is the value returned
Alu_execute(self, op, a, b) ==
    LET result == AluValue(op, a, b)
    IN  [result |-> result, zero |-> result = Wd(0)]

(***************************************************************************)
(* RegisterFile                                                            *)
(***************************************************************************)
NumRegs == 32

RegisterFile_new ==
    [registers |-> [i \in 0..(NumRegs - 1) |-> Wd(0)],
     addr_a |-> 0, write_data_a |-> Wd(0), read_data_a |-> Wd(0),
     write_enable_a |-> FALSE, addr_b |-> 0, read_data_b |-> Wd(0)]

\* variant: the read ports keep what they held
RegisterFile_combinational_read_latched(self) == self

RegisterFile_combinational_read(self) ==
    [self EXCEPT
       !.read_data_a = IF self.addr_a = 0 THEN Wd(0)
                       ELSE IF self.addr_a < NumRegs THEN self.registers[self.addr_a]
                       ELSE @,
       !.read_data_b = IF self.addr_b = 0 THEN Wd(0)
                       ELSE IF self.addr_b < NumRegs THEN self.registers[self.addr_b]
                       ELSE @]

\* the write guard without the x0 test
RegisterFile_write_guard_x0_writable(self) ==
    self.write_enable_a /\ self.addr_a < NumRegs

\* the write guard without the enable test
RegisterFile_write_guard_always_enabled(self) ==
    self.addr_a # 0 /\ self.addr_a < NumRegs

\* the guard of the write port
RegisterFile_write_guard(self) ==
    self.write_enable_a /\ self.addr_a # 0 /\ self.addr_a < NumRegs

RegisterFile_clock(self, addr_a, write_data_a, write_enable_a, addr_b) ==
    LET in == [self EXCEPT !.addr_a = addr_a, !.write_data_a = write_data_a,
                           !.write_enable_a = write_enable_a, !.addr_b = addr_b]
        wr == IF RegisterFile_write_guard(in)
              THEN [in EXCEPT !.registers[in.addr_a] = in.write_data_a]
              ELSE in
    IN  RegisterFile_combinational_read(wr)

RegisterFile_reset(self) ==
    [self EXCEPT !.registers = [i \in 0..(NumRegs - 1) |-> Wd(0)]]

(***************************************************************************)
(* Memory                                                                  *)
(***************************************************************************)
MemWords == 1024

Memory_new ==
    [data |-> [i \in 0..(MemWords - 1) |-> Wd(0)],
     read_enable |-> FALSE, write_enable |-> FALSE, address |-> Wd(0),
     write_data |-> Wd(0), read_data |-> Wd(0), write_mask |-> 15]

\* addr >> 2
ShiftRight2(addr) == Hi(addr) * 16384 + Lo(addr) \div 4

\* variant: the byte address itself, reduced modulo the number of words
WordAddr_unshifted(addr) == Lo(addr) % MemWords

\* variant: the word address without the reduction modulo the number of words
WordAddr_unwrapped(addr) == ShiftRight2(addr)

\* (addr >> 2) as usize % self.data.len()
WordAddr(addr) == ShiftRight2(addr) % MemWords

\* variant: the read that hands back the addressed byte of the word only
Memory_combinational_read_byte(self, addr) ==
    LET word == self.data[WordAddr(addr)]
        byte == CASE Lo(addr) % 4 = 0 -> Lo(word) % 256
                  [] Lo(addr) % 4 = 1 -> Lo(word) \div 256
                  [] Lo(addr) % 4 = 2 -> Hi(word) % 256
                  [] Lo(addr) % 4 = 3 -> Hi(word) \div 256
    IN  [self EXCEPT !.read_data = Wd(byte)]

Memory_combinational_read(self, addr) ==
    [self EXCEPT !.read_data = self.data[WordAddr(addr)]]

\* a halfword write that skips its alignment test
HalfAligned_unchecked(addr) == TRUE

\* addr & 0x1 == 0
HalfAligned(addr) == Lo(addr) % 2 = 0

\* addr & 0x3 == 0
WordAligned(addr) == Lo(addr) % 4 = 0

\* variant: byte and halfword writes that store the shifted data without
\* merging it into the current word
Memory_sequential_write_no_merge(self, addr, data, mask) ==
    LET word_addr == WordAddr(addr)
        byte_offset == Lo(addr) % 4
        current == self.data[word_addr]
        shift == byte_offset * 8
        new == CASE mask = 1 -> Shl(BitAnd(data, Wd(255)), shift)
                 [] mask = 3 ->
                      IF HalfAligned(addr)
                      THEN Shl(BitAnd(data, Wd(65535)), shift)
                      ELSE current
                 [] mask = 15 ->
                      IF WordAligned(addr) THEN data ELSE current
                 [] OTHER -> current
    IN  [self EXCEPT !.data[word_addr] = new]

Memory_sequential_write(self, addr, data, mask) ==
    LET word_addr == WordAddr(addr)
        byte_offset == Lo(addr) % 4
        current == self.data[word_addr]
        shift == byte_offset * 8
        byte_mask == Shl(Wd(255), shift)
        half_mask == Shl(Wd(65535), shift)
        new == CASE mask = 1 ->
                      BitOr(BitAnd(current, BitNot(byte_mask)),
                            Shl(BitAnd(data, Wd(255)), shift))
                 [] mask = 3 ->
                      IF HalfAligned(addr)
                      THEN BitOr(BitAnd(current, BitNot(half_mask)),
                                 Shl(BitAnd(data, Wd(65535)), shift))
                      ELSE current
                 [] mask = 15 ->
                      IF WordAligned(addr) THEN data ELSE current
                 [] OTHER -> current
    IN  [self EXCEPT !.data[word_addr] = new]

Memory_clock(self, read_en, write_en, addr, data) ==
    LET in == [self EXCEPT !.read_enable = read_en, !.write_enable = write_en,
                           !.address = addr, !.write_data = data]
        wr == IF in.write_enable
              THEN Memory_sequential_write(in, in.address, in.write_data, in.write_mask)
              ELSE in
    IN  IF wr.read_enable THEN Memory_combinational_read(wr, wr.address) ELSE wr

Memory_get_read_data(self) == self.read_data

Memory_set_write_mask(self, mask) == [self EXCEPT !.write_mask = mask]

RECURSIVE Memory_load_program_backwards(_, _)
\* variant: the entries are stored last to first
Memory_load_program_backwards(self, program) ==
    IF program = <<>> THEN self
    ELSE LET addr == Head(program)[1]
             data == Head(program)[2]
             word_addr == ShiftRight2(addr)
             rest == Memory_load_program_backwards(self, Tail(program))
         IN  IF WordAligned(addr) /\ word_addr < MemWords
             THEN [rest EXCEPT !.data[word_addr] = data]
             ELSE rest

RECURSIVE Memory_load_program(_, _)
\* program: a sequence of <<addr, data>> entries, stored in order
Memory_load_program(self, program) ==
    IF program = <<>> THEN self
    ELSE LET addr == Head(program)[1]
             data == Head(program)[2]
             word_addr == ShiftRight2(addr)
             next == IF WordAligned(addr) /\ word_addr < MemWords
                     THEN [self EXCEPT !.data[word_addr] = data]
                     ELSE self
         IN  Memory_load_program(next, Tail(program))

\* variant: a fetch that returns the read latch
Memory_fetch_latched(self, addr) == self.read_data

Memory_fetch(self, addr) == self.data[WordAddr(addr)]

Memory_reset(self) ==
    [self EXCEPT !.data = [i \in 0..(MemWords - 1) |-> Wd(0)], !.read_data = Wd(0)]

(***************************************************************************)
(* ControlUnit                                                             *)
(***************************************************************************)
ControlUnit_new ==
    [current_instruction |-> Instruction_new(Wd(0)),
     control_signals |-> ControlSignals_new,
     program_counter |-> Wd(0)]

\* the signals decode derives from the current instruction
decode(inst) ==
    LET op == opcode(inst)
        f3 == funct3(inst)
        f7 == funct7(inst)
        s == ControlSignals_new
    IN  CASE op = 55 ->   \* 0b0110111 LUI
               [s EXCEPT !.alu_op = "PassB", !.alu_src = TRUE, !.reg_write = TRUE]
          [] op = 23 ->   \* 0b0010111 AUIPC
               [s EXCEPT !.alu_op = "Add", !.alu_src = TRUE, !.reg_write = TRUE]
          [] op = 111 ->  \* 0b1101111 JAL
               [s EXCEPT !.alu_op = "Add", !.jump = TRUE, !.reg_write = TRUE]
          [] op = 103 ->  \* 0b1100111 JALR
               [s EXCEPT !.alu_op = "Add", !.alu_src = TRUE, !.jump = TRUE,
                         !.reg_write = TRUE]
          [] op = 99 ->   \* 0b1100011 branches
               [s EXCEPT !.alu_op = "Sub", !.branch = TRUE]
          [] op = 3 ->    \* 0b0000011 loads
               [s EXCEPT !.alu_op = "Add", !.alu_src = TRUE, !.mem_read = TRUE,
                         !.mem_to_reg = TRUE, !.reg_write = TRUE]
          [] op = 35 ->   \* 0b0100011 stores
               [s EXCEPT !.alu_op = "Add", !.alu_src = TRUE, !.mem_write = TRUE]
          [] op = 19 ->   \* 0b0010011 I-type ALU operations
               [s EXCEPT !.alu_src = TRUE, !.reg_write = TRUE,
                         !.alu_op = CASE f3 = 0 -> "Add"
                                      [] f3 = 2 -> "Slt"
                                      [] f3 = 3 -> "Sltu"
                                      [] f3 = 4 -> "Xor"
                                      [] f3 = 6 -> "Or"
                                      [] f3 = 7 -> "And"
                                      [] f3 = 1 -> "Sll"
                                      [] f3 = 5 -> IF (f7 \div 32) % 2 # 0
                                                   THEN "Sra" ELSE "Srl"]
          [] op = 51 ->   \* 0b0110011 R-type ALU operations
               [s EXCEPT !.reg_write = TRUE,
                         !.alu_op = CASE f3 = 0 /\ f7 = 0 -> "Add"
                                      [] f3 = 0 /\ f7 = 32 -> "Sub"
                                      [] f3 = 1 -> "Sll"
                                      [] f3 = 2 -> "Slt"
                                      [] f3 = 3 -> "Sltu"
                                      [] f3 = 4 -> "Xor"
                                      [] f3 = 5 /\ f7 = 0 -> "Srl"
                                      [] f3 = 5 /\ f7 = 32 -> "Sra"
                                      [] f3 = 6 -> "Or"
                                      [] f3 = 7 -> "And"
                                      [] OTHER -> "Add"]
          [] op = 115 ->  \* 0b1110011 SYSTEM
               [s EXCEPT !.alu_op = "PassA"]
          [] OTHER ->
               [s EXCEPT !.alu_op = "PassA"]

\* variant: a decode whose store arm also enables the register write
ControlUnit_clock_store_writes_rd(self, instruction) ==
    [self EXCEPT !.current_instruction = instruction,
                 !.control_signals =
                     IF opcode(instruction) = 35
                     THEN [decode(instruction) EXCEPT !.reg_write = TRUE]
                     ELSE decode(instruction)]

\* variant: a decode whose SYSTEM and unknown-opcode arms enable the memory write
ControlUnit_clock_unknown_stores(self, instruction) ==
    [self EXCEPT !.current_instruction = instruction,
                 !.control_signals =
                     IF opcode(instruction) \in {55, 23, 111, 103, 99, 3, 35, 19, 51}
                     THEN decode(instruction)
                     ELSE [decode(instruction) EXCEPT !.mem_write = TRUE]]

ControlUnit_clock(self, instruction) ==
    [self EXCEPT !.current_instruction = instruction,
                 !.control_signals = decode(instruction)]

\* jump_target & !0x3
AlignTarget(jump_target) == BitAnd(jump_target, BitNot(Wd(3)))

\* a branch that transfers control whether taken or not
TakesTarget_ignores_taken(signals, branch_taken) ==
    signals.jump \/ signals.branch

\* whether update_pc transfers control
TakesTarget(signals, branch_taken) ==
    signals.jump \/ (signals.branch /\ branch_taken)

ControlUnit_update_pc(self, branch_taken, jump_target) ==
    IF TakesTarget(self.control_signals, branch_taken)
    THEN [self EXCEPT !.program_counter = AlignTarget(jump_target)]
    ELSE [self EXCEPT !.program_counter = wrapping_add(@, Wd(4))]

ControlUnit_get_pc(self) == self.program_counter

\* set_pc without the alignment mask
ControlUnit_set_pc_unmasked(self, pc) ==
    [self EXCEPT !.program_counter = pc]

ControlUnit_set_pc(self, pc) ==
    [self EXCEPT !.program_counter = BitAnd(pc, BitNot(Wd(3)))]

\* a reset that leaves the program counter
ControlUnit_reset_keeps_pc(self) ==
    [self EXCEPT !.control_signals = ControlSignals_new]

ControlUnit_reset(self) ==
    [self EXCEPT !.program_counter = Wd(0), !.control_signals = ControlSignals_new]

(***************************************************************************)
(* Cpu                                                                     *)
(***************************************************************************)
Cpu_new ==
    [memory |-> Memory_new, registers |-> RegisterFile_new,
     control |-> ControlUnit_new, alu |-> Alu_new, cycle_count |-> 0]

\* variant: BGEU decided as BLTU
should_branch_bgeu_as_bltu(inst, rs1_data, rs2_data) ==
    IF opcode(inst) # 99 THEN FALSE
    ELSE CASE funct3(inst) = 0 -> rs1_data = rs2_data
           [] funct3(inst) = 1 -> rs1_data # rs2_data
           [] funct3(inst) = 4 -> LtS(rs1_data, rs2_data)
           [] funct3(inst) = 5 -> ~LtS(rs1_data, rs2_data)
           [] funct3(inst) = 6 -> LtU(rs1_data, rs2_data)
           [] funct3(inst) = 7 -> LtU(rs1_data, rs2_data)
           [] OTHER -> FALSE

should_branch(inst, rs1_data, rs2_data) ==
    IF opcode(inst) # 99 THEN FALSE
    ELSE CASE funct3(inst) = 0 -> rs1_data = rs2_data
           [] funct3(inst) = 1 -> rs1_data # rs2_data
           [] funct3(inst) = 4 -> LtS(rs1_data, rs2_data)
           [] funct3(inst) = 5 -> ~LtS(rs1_data, rs2_data)
           [] funct3(inst) = 6 -> LtU(rs1_data, rs2_data)
           [] funct3(inst) = 7 -> ~LtU(rs1_data, rs2_data)
           [] OTHER -> FALSE

\* JAL without its arm: the target falls through to pc + 4
calculate_jump_target_no_jal(inst, pc, rs1_data) ==
    CASE opcode(inst) = 103 ->
           BitAnd(wrapping_add(rs1_data, FromI32(imm_i(inst))), BitNot(Wd(1)))
      [] opcode(inst) = 99 -> wrapping_add(pc, FromI32(imm_b(inst)))
      [] OTHER -> wrapping_add(pc, Wd(4))

\* JALR relative to the PC instead of rs1
calculate_jump_target_jalr_pc(inst, pc, rs1_data) ==
    CASE opcode(inst) = 111 -> wrapping_add(pc, FromI32(imm_j(inst)))
      [] opcode(inst) = 103 ->
           BitAnd(wrapping_add(pc, FromI32(imm_i(inst))), BitNot(Wd(1)))
      [] opcode(inst) = 99 -> wrapping_add(pc, FromI32(imm_b(inst)))
      [] OTHER -> wrapping_add(pc, Wd(4))

calculate_jump_target(inst, pc, rs1_data) ==
    CASE opcode(inst) = 111 -> wrapping_add(pc, FromI32(imm_j(inst)))
      [] opcode(inst) = 103 ->
           BitAnd(wrapping_add(rs1_data, FromI32(imm_i(inst))), BitNot(Wd(1)))
      [] opcode(inst) = 99 -> wrapping_add(pc, FromI32(imm_b(inst)))
      [] OTHER -> wrapping_add(pc, Wd(4))

\* variant: the ALU result written back by a jump
WriteBackData_alu_for_jump(ctrl, mem_data, pc, alu_result) ==
    IF ctrl.mem_to_reg THEN mem_data ELSE alu_result

\* the value the write-back stage writes to rd
WriteBackData(ctrl, mem_data, pc, alu_result) ==
    IF ctrl.mem_to_reg THEN mem_data
    ELSE IF ctrl.jump THEN wrapping_add(pc, Wd(4))
    ELSE alu_result

\* a cycle that is not counted
NextCycleCount_uncounted(n) == n

\* cycle_count += 1
NextCycleCount(n) == n + 1

\* variant: the write-back lands in the register named by rs1
Cpu_clock_writes_rs1(self) ==
    LET pc == ControlUnit_get_pc(self.control)
        instruction_word == Memory_fetch(self.memory, pc)
        inst == Instruction_new(instruction_word)
        control1 == ControlUnit_clock(self.control, inst)
        ctrl == control1.control_signals
        regs1 == RegisterFile_clock(self.registers, rs1(inst), Wd(0), FALSE, rs2(inst))
        rs1_data == regs1.read_data_a
        rs2_data == regs1.read_data_b
        alu_operand_b == IF ctrl.alu_src THEN FromI32(imm_i(inst)) ELSE rs2_data
        alu_operand_a == IF opcode(inst) = 23 THEN pc
                         ELSE IF opcode(inst) = 55 THEN Wd(0)
                         ELSE rs1_data
        alu1 == Alu_execute(self.alu, ctrl.alu_op, alu_operand_a, alu_operand_b)
        alu_result == alu1.result
        access == ctrl.mem_read \/ ctrl.mem_write
        memory1 == IF access
                   THEN Memory_clock(self.memory, ctrl.mem_read, ctrl.mem_write,
                                     alu_result, rs2_data)
                   ELSE self.memory
        mem_data == IF access THEN Memory_get_read_data(memory1) ELSE Wd(0)
        regs2 == IF ctrl.reg_write
                 THEN RegisterFile_clock(regs1, rs1(inst),
                                         WriteBackData(ctrl, mem_data, pc, alu_result),
                                         TRUE, 0)
                 ELSE regs1
        branch_taken == should_branch(inst, rs1_data, rs2_data)
        jump_target == calculate_jump_target(inst, pc, rs1_data)
    IN  [memory |-> memory1, registers |-> regs2,
         control |-> ControlUnit_update_pc(control1, branch_taken, jump_target),
         alu |-> alu1, cycle_count |-> NextCycleCount(self.cycle_count)]

\* one fetch-decode-execute cycle
Cpu_clock(self) ==
    LET pc == ControlUnit_get_pc(self.control)
        instruction_word == Memory_fetch(self.memory, pc)
        inst == Instruction_new(instruction_word)
        control1 == ControlUnit_clock(self.control, inst)
        ctrl == control1.control_signals
        regs1 == RegisterFile_clock(self.registers, rs1(inst), Wd(0), FALSE, rs2(inst))
        rs1_data == regs1.read_data_a
        rs2_data == regs1.read_data_b
        alu_operand_b == IF ctrl.alu_src THEN FromI32(imm_i(inst)) ELSE rs2_data
        alu_operand_a == IF opcode(inst) = 23 THEN pc
                         ELSE IF opcode(inst) = 55 THEN Wd(0)
                         ELSE rs1_data
        alu1 == Alu_execute(self.alu, ctrl.alu_op, alu_operand_a, alu_operand_b)
        alu_result == alu1.result
        access == ctrl.mem_read \/ ctrl.mem_write
        memory1 == IF access
                   THEN Memory_clock(self.memory, ctrl.mem_read, ctrl.mem_write,
                                     alu_result, rs2_data)
                   ELSE self.memory
        mem_data == IF access THEN Memory_get_read_data(memory1) ELSE Wd(0)
        regs2 == IF ctrl.reg_write
                 THEN RegisterFile_clock(regs1, rd(inst),
                                         WriteBackData(ctrl, mem_data, pc, alu_result),
                                         TRUE, 0)
                 ELSE regs1
        branch_taken == should_branch(inst, rs1_data, rs2_data)
        jump_target == calculate_jump_target(inst, pc, rs1_data)
    IN  [memory |-> memory1, registers |-> regs2,
         control |-> ControlUnit_update_pc(control1, branch_taken, jump_target),
         alu |-> alu1, cycle_count |-> NextCycleCount(self.cycle_count)]

\* the indices and shift amounts one clock() uses: <<kind, value>> with kind
\* "memory" for an index into data, "register" for a register address and
\* "shift" for a shift amount; what follows the fetch needs the fetched word
Cpu_clock_indices(self) ==
    LET pc == ControlUnit_get_pc(self.control)
        fetch == WordAddr(pc)
    IN  {<<"memory", fetch>>}
        \cup IF fetch \notin 0..(MemWords - 1) THEN {}
             ELSE LET inst == Instruction_new(Memory_fetch(self.memory, pc))
                      ctrl == ControlUnit_clock(self.control, inst).control_signals
                      regs1 == RegisterFile_clock(self.registers, rs1(inst), Wd(0),
                                                  FALSE, rs2(inst))
                      rs1_data == regs1.read_data_a
                      rs2_data == regs1.read_data_b
                      b == IF ctrl.alu_src THEN FromI32(imm_i(inst)) ELSE rs2_data
                      a == IF opcode(inst) = 23 THEN pc
                           ELSE IF opcode(inst) = 55 THEN Wd(0)
                           ELSE rs1_data
                      addr == AluValue(ctrl.alu_op, a, b)
                  IN  {<<"register", rs1(inst)>>, <<"register", rs2(inst)>>}
                      \cup (IF ctrl.alu_op \in {"Sll", "Srl", "Sra"}
                            THEN {<<"shift", ShiftAmount(b)>>} ELSE {})
                      \cup (IF ctrl.mem_read \/ ctrl.mem_write
                            THEN {<<"memory", WordAddr(addr)>>} ELSE {})
                      \cup (IF ctrl.mem_write /\ self.memory.write_mask \in {1, 3}
                            THEN {<<"shift", (Lo(addr) % 4) * 8>>} ELSE {})
                      \cup (IF ctrl.reg_write THEN {<<"register", rd(inst)>>} ELSE {})

\* an index within its array, a shift amount below the width of a word
InRange(x) ==
    CASE x[1] = "memory" -> x[2] \in 0..(MemWords - 1)
      [] x[1] = "register" -> x[2] \in 0..(NumRegs - 1)
      [] x[1] = "shift" -> x[2] \in 0..31

\* clock() panics on an index out of bounds or a shift amount of 32 or more;
\* the register file tests its addresses itself
Cpu_clock_panics(self) ==
    \E x \in Cpu_clock_indices(self) : x[1] # "register" /\ ~InRange(x)

RECURSIVE Cpu_run_cycles(_, _)
Cpu_run_cycles(self, count) ==
    IF count = 0 THEN self ELSE Cpu_run_cycles(Cpu_clock(self), count - 1)

Cpu_reset(self) ==
    [self EXCEPT !.control = ControlUnit_reset(@),
                 !.registers = RegisterFile_reset(@),
                 !.memory = Memory_reset(@),
                 !.cycle_count = 0]

Cpu_load_program(self, program) ==
    [self EXCEPT !.memory = Memory_load_program(@, program)]

(***************************************************************************)
(* The prototype Cpu (src/alu): its ALU with carry, negative and overflow  *)
(* flags                                                                   *)
(***************************************************************************)
Flags_new == [zero |-> FALSE, carry |-> FALSE, negative |-> FALSE, overflow |-> FALSE]

ProtoCpu_new == [alu_result |-> Wd(0), alu_flags |-> Flags_new]

\* the prototype Alu of main.rs
ProtoAlu_new ==
    [accumulator |-> Wd(0), result |-> Wd(0), flags |-> Flags_new, state |-> "Idle",
     registers |-> [i \in 0..15 |-> Wd(0)]]

\* w & 0x8000_0000 != 0
SignBit(w) == Hi(w) >= 32768

\* <<a + b modulo 2^32, whether the sum wrapped>>
overflowing_add(a, b) ==
    <<wrapping_add(a, b), Hi(a) + Hi(b) + (Lo(a) + Lo(b)) \div Half >= Half>>

\* variant: the carry of a subtraction set when there is no borrow
overflowing_sub_no_borrow(a, b) == <<wrapping_sub(a, b), ~LtU(a, b)>>

\* <<a - b modulo 2^32, whether the difference wrapped>>
overflowing_sub(a, b) == <<wrapping_sub(a, b), LtU(a, b)>>

\* the match of execute_alu: result, carry, overflow
ExecuteAluValue(op, a, b) ==
    LET none(r) == [result |-> r, carry |-> FALSE, overflow |-> FALSE]
    IN  CASE op = "Nop" -> none(a)
          [] op = "Add" ->
               LET res == overflowing_add(a, b)
               IN  [result |-> res[1], carry |-> res[2],
                    overflow |-> SignBit(BitAnd(BitXor(a, res[1]), BitXor(b, res[1])))]
          [] op = "Sub" ->
               LET res == overflowing_sub(a, b)
               IN  [result |-> res[1], carry |-> res[2],
                    overflow |-> SignBit(BitAnd(BitXor(a, b), BitXor(a, res[1])))]
          [] op = "And" -> none(BitAnd(a, b))
          [] op = "Or" -> none(BitOr(a, b))
          [] op = "Xor" -> none(BitXor(a, b))
          [] op = "Not" -> none(BitNot(a))
          [] op = "Shl" -> none(Shl(a, Lo(b) % 32))
          [] op = "Shr" -> none(Shr(a, Lo(b) % 32))

\* variant: a zero flag that stays set once set
ProtoCpu_execute_alu_sticky_zero(self, op, a, b) ==
    LET r == ExecuteAluValue(op, a, b)
    IN  [alu_result |-> r.result,
         alu_flags |-> [zero |-> self.alu_flags.zero \/ r.result = Wd(0),
                        carry |-> r.carry,
                        negative |-> SignBit(r.result),
                        overflow |-> r.overflow]]

ProtoCpu_execute_alu(self, op, a, b) ==
    LET r == ExecuteAluValue(op, a, b)
    IN  [alu_result |-> r.result,
         alu_flags |-> [zero |-> r.result = Wd(0),
                        carry |-> r.carry,
                        negative |-> SignBit(r.result),
                        overflow |-> r.overflow]]

\* the variants of AluOp in the order of their discriminants
AluOpNames == <<"Nop", "Add", "Sub", "And", "Or", "Xor", "Not", "Shl", "Shr">>

\* the opcode byte is the discriminant of a variant of AluOp
ValidOpcode(byte) == byte < Len(AluOpNames)

\* transmute::<Logic8, AluOp>(opcode) of such a byte
AluOpOf(byte) == AluOpNames[byte + 1]

\* Alu::execute of main.rs with the AluOp op the opcode byte is taken for
ProtoAlu_execute(self, instruction, op) ==
    LET r == ExecuteAluValue(op, self.accumulator, Wd(instruction.address))
    IN  [self EXCEPT !.result = r.result,
                     !.flags = [zero |-> r.result = Wd(0),
                                carry |-> r.carry,
                                negative |-> SignBit(r.result),
                                overflow |-> r.overflow]]

\* variant: the Execute clock writes the accumulator as well
ProtoAlu_clock_writes_in_execute(self, instruction, op) ==
    CASE self.state = "Idle" -> [self EXCEPT !.state = "Fetch"]
      [] self.state = "Fetch" -> [self EXCEPT !.state = "Execute"]
      [] self.state = "Execute" ->
           [ProtoAlu_execute(self, instruction, op) EXCEPT
               !.state = "WriteBack",
               !.accumulator = ProtoAlu_execute(self, instruction, op).result]
      [] self.state = "WriteBack" ->
           [self EXCEPT !.accumulator = self.result, !.state = "Idle"]

\* Alu::clock of main.rs
ProtoAlu_clock(self, instruction, op) ==
    CASE self.state = "Idle" -> [self EXCEPT !.state = "Fetch"]
      [] self.state = "Fetch" -> [self EXCEPT !.state = "Execute"]
      [] self.state = "Execute" ->
           [ProtoAlu_execute(self, instruction, op) EXCEPT !.state = "WriteBack"]
      [] self.state = "WriteBack" ->
           [self EXCEPT !.accumulator = self.result, !.state = "Idle"]

(***************************************************************************)
(* riscv-tools: the debugger and the execution trace                       *)
(***************************************************************************)
\* Debugger::new(cpu); the cpu it owns is the Cpu of the model.  status,
\* returned and clocks follow a call of run_until_breakpoint: whether it is
\* running or has returned, the value returned, the clock() calls it made
Debugger_new ==
    [breakpoints |-> <<>>, status |-> "idle", returned |-> Wd(0), clocks |-> 0]

Debugger_add_breakpoint(self, address) ==
    [self EXCEPT !.breakpoints = Append(@, address)]

\* variant: a breakpoint matches the PC when they are in the same word
Contains_same_word(seq, x) ==
    \E i \in 1..Len(seq) : Hi(seq[i]) = Hi(x) /\ Lo(seq[i]) \div 4 = Lo(x) \div 4

\* self.breakpoints.contains(&pc)
Contains(seq, x) == \E i \in 1..Len(seq) : seq[i] = x

ExecutionTrace_new(max_entries) == [entries |-> <<>>, max_entries |-> max_entries]

\* variant: a full trace drops the entry just pushed
ExecutionTrace_record_drops_newest(self, entry) ==
    LET pushed == Append(self.entries, entry)
    IN  [self EXCEPT !.entries = IF Len(pushed) > self.max_entries
                                 THEN SubSeq(pushed, 1, Len(pushed) - 1)
                                 ELSE pushed]

\* push, then remove(0) when the length exceeds max_entries
ExecutionTrace_record(self, entry) ==
    LET pushed == Append(self.entries, entry)
    IN  [self EXCEPT !.entries = IF Len(pushed) > self.max_entries
                                 THEN Tail(pushed)
                                 ELSE pushed]

ExecutionTrace_get_entries(self) == self.entries

ExecutionTrace_clear(self) == [self EXCEPT !.entries = <<>>]

(***************************************************************************)
(* riscv-asm                                                               *)
(***************************************************************************)

\* A source line after line.trim(): parts is line.split_whitespace(), and
\* empty, hash and colon are the outcomes of line.is_empty(),
\* line.starts_with('#') and line.ends_with(':').
SourceLine(parts, hash, colon) ==
    [parts |-> parts, empty |-> parts = <<>>, hash |-> hash, colon |-> colon]

\* line.trim_end_matches(':') on the label lines of the inputs
trim_end_matches_colon(line) ==
    CASE line.parts = <<"loop:">> -> "loop"
      [] line.parts = <<"end:">> -> "end"
      [] OTHER -> line.parts[1]

\* str::to_lowercase on the mnemonics of the inputs
to_lowercase(s) ==
    CASE s = "ADDI" -> "addi"
      [] s = "ADD" -> "add"
      [] OTHER -> s

Ok(value) == <<"Ok", value>>

Err(kind, text) == <<"Err", <<kind, text>>>>

\* HashMap::insert on a map kept as a set of <<key, value>> pairs
HashMap_insert(map, key, value) == {e \in map : e[1] # key} \cup {<<key, value>>}

\* Assembler::new; returned is the value of the last assemble call
Assembler_new == [labels |-> {}, returned |-> <<"None", <<>>>>]

\* encode_instruction: the stub encodes every addi as ADDI x1, x0, 42 and
\* knows no other mnemonic
encode_instruction(line, address, labels) ==
    IF line.parts = <<>>
    THEN Err("ParseError", "Empty instruction")
    ELSE LET mnemonic == to_lowercase(line.parts[1])
         IN  IF mnemonic = "addi"
             THEN Ok(i_type(19, 1, 0, 0, 42))
             ELSE Err("UnknownInstruction", mnemonic)

RECURSIVE Assembler_collect_labels(_, _, _)
\* Assembler::collect_labels: the labels after the lines, from address
Assembler_collect_labels(labels, lines, address) ==
    IF lines = <<>>
    THEN labels
    ELSE LET line == Head(lines)
         IN  IF line.empty \/ line.hash
             THEN Assembler_collect_labels(labels, Tail(lines), address)
             ELSE IF line.colon
                  THEN Assembler_collect_labels(
                           HashMap_insert(labels, trim_end_matches_colon(line), address),
                           Tail(lines), address)
                  ELSE Assembler_collect_labels(labels, Tail(lines), address + 4)

RECURSIVE Assembler_generate_code(_, _, _, _)
\* Assembler::generate_code: the first encoding error ends the pass
Assembler_generate_code(labels, lines, address, program) ==
    IF lines = <<>>
    THEN Ok(program)
    ELSE LET line == Head(lines)
         IN  IF line.empty \/ line.hash \/ line.colon
             THEN Assembler_generate_code(labels, Tail(lines), address, program)
             ELSE LET instruction == encode_instruction(line, address, labels)
                  IN  IF instruction[1] = "Err"
                      THEN instruction
                      ELSE Assembler_generate_code(
                               labels, Tail(lines), address + 4,
                               Append(program, <<Wd(address), instruction[2]>>))

\* Assembler::assemble
Assembler_assemble(self, source) ==
    LET labels == Assembler_collect_labels(self.labels, source, 0)
    IN  [labels |-> labels,
         returned |-> Assembler_generate_code(labels, source, 0, <<>>)]

(***************************************************************************)
(* riscv-disasm: the text of an instruction is kept as the sequence of the *)
(* values the format string puts together, the mnemonic first              *)
(***************************************************************************)

abi_names ==
    <<"zero", "ra", "sp", "gp", "tp", "t0", "t1", "t2",
      "s0", "s1", "a0", "a1", "a2", "a3", "a4", "a5",
      "a6", "a7", "s2", "s3", "s4", "s5", "s6", "s7",
      "s8", "s9", "s10", "s11", "t3", "t4", "t5", "t6">>

reg_name(r) ==
    IF r < Len(abi_names) THEN <<"x", r, abi_names[r + 1]>> ELSE <<"x", r>>

InvalidInstruction(inst) == Err("InvalidInstruction", inst)

\* (imm as u32) >> 12
Upper20(imm) == Hi(FromI32(imm)) * 16 + (Lo(FromI32(imm)) \div 4096)

disasm_lui(inst) == Ok(<<"lui", reg_name(rd(inst)), Upper20(imm_u(inst))>>)

disasm_auipc(inst) == Ok(<<"auipc", reg_name(rd(inst)), Upper20(imm_u(inst))>>)

disasm_jal(inst) == Ok(<<"jal", reg_name(rd(inst)), imm_j(inst)>>)

disasm_jalr(inst) ==
    Ok(<<"jalr", reg_name(rd(inst)), imm_i(inst), reg_name(rs1(inst))>>)

disasm_branch(inst) ==
    LET f3 == funct3(inst)
    IN  IF f3 \in {0, 1, 4, 5, 6, 7}
        THEN Ok(<<CASE f3 = 0 -> "beq" [] f3 = 1 -> "bne" [] f3 = 4 -> "blt"
                    [] f3 = 5 -> "bge" [] f3 = 6 -> "bltu" [] f3 = 7 -> "bgeu",
                  reg_name(rs1(inst)), reg_name(rs2(inst)), imm_b(inst)>>)
        ELSE InvalidInstruction(inst)

disasm_load(inst) ==
    LET f3 == funct3(inst)
    IN  IF f3 \in {0, 1, 2, 4, 5}
        THEN Ok(<<CASE f3 = 0 -> "lb" [] f3 = 1 -> "lh" [] f3 = 2 -> "lw"
                    [] f3 = 4 -> "lbu" [] f3 = 5 -> "lhu",
                  reg_name(rd(inst)), imm_i(inst), reg_name(rs1(inst))>>)
        ELSE InvalidInstruction(inst)

disasm_store(inst) ==
    LET f3 == funct3(inst)
    IN  IF f3 \in {0, 1, 2}
        THEN Ok(<<CASE f3 = 0 -> "sb" [] f3 = 1 -> "sh" [] f3 = 2 -> "sw",
                  reg_name(rs2(inst)), imm_s(inst), reg_name(rs1(inst))>>)
        ELSE InvalidInstruction(inst)

disasm_op_imm(inst) ==
    LET f3 == funct3(inst)
    IN  Ok(<<CASE f3 = 0 -> "addi"
               [] f3 = 2 -> "slti"
               [] f3 = 3 -> "sltiu"
               [] f3 = 4 -> "xori"
               [] f3 = 6 -> "ori"
               [] f3 = 7 -> "andi"
               [] f3 = 1 -> "slli"
               [] f3 = 5 -> IF (funct7(inst) \div 32) % 2 # 0 THEN "srai" ELSE "srli",
             reg_name(rd(inst)), reg_name(rs1(inst)), imm_i(inst)>>)

\* disasm_op with (0b101, _) => "srl" in the place of the two exact pairs
disasm_op_any_funct7(inst) ==
    LET f3 == funct3(inst)
        f7 == funct7(inst)
    IN  IF f3 = 0 /\ f7 \notin {0, 32}
        THEN InvalidInstruction(inst)
        ELSE Ok(<<CASE f3 = 0 /\ f7 = 0 -> "add"
                    [] f3 = 0 /\ f7 = 32 -> "sub"
                    [] f3 = 1 -> "sll"
                    [] f3 = 2 -> "slt"
                    [] f3 = 3 -> "sltu"
                    [] f3 = 4 -> "xor"
                    [] f3 = 5 -> "srl"
                    [] f3 = 6 -> "or"
                    [] f3 = 7 -> "and",
                  reg_name(rd(inst)), reg_name(rs1(inst)), reg_name(rs2(inst))>>)

disasm_op(inst) ==
    LET f3 == funct3(inst)
        f7 == funct7(inst)
    IN  IF f3 \in {0, 5} /\ f7 \notin {0, 32}
        THEN InvalidInstruction(inst)
        ELSE Ok(<<CASE f3 = 0 /\ f7 = 0 -> "add"
                    [] f3 = 0 /\ f7 = 32 -> "sub"
                    [] f3 = 1 -> "sll"
                    [] f3 = 2 -> "slt"
                    [] f3 = 3 -> "sltu"
                    [] f3 = 4 -> "xor"
                    [] f3 = 5 /\ f7 = 0 -> "srl"
                    [] f3 = 5 /\ f7 = 32 -> "sra"
                    [] f3 = 6 -> "or"
                    [] f3 = 7 -> "and",
                  reg_name(rd(inst)), reg_name(rs1(inst)), reg_name(rs2(inst))>>)

disasm_system(inst) ==
    CASE inst = Wd(115) -> Ok(<<"ecall">>)
      [] inst = W(16, 115) -> Ok(<<"ebreak">>)
      [] OTHER -> InvalidInstruction(inst)

disassemble(word) ==
    LET inst == Instruction_new(word)
        op == opcode(inst)
    IN  CASE op = 55 -> disasm_lui(inst)
          [] op = 23 -> disasm_auipc(inst)
          [] op = 111 -> disasm_jal(inst)
          [] op = 103 -> disasm_jalr(inst)
          [] op = 99 -> disasm_branch(inst)
          [] op = 3 -> disasm_load(inst)
          [] op = 35 -> disasm_store(inst)
          [] op = 19 -> disasm_op_imm(inst)
          [] op = 51 -> disasm_op(inst)
          [] op = 115 -> disasm_system(inst)
          [] OTHER -> Err("UnknownOpcode", op)

\* no second Cpu instance
NoTwin == <<>>

(***************************************************************************)
(* Programs and inputs                                                     *)
(***************************************************************************)
\* main.rs, test_risc_v_instructions
DemoProgram ==
    << <<Wd(0), i_type(19, 1, 0, 0, 42)>>,
       <<Wd(4), i_type(19, 2, 0, 0, 8)>>,
       <<Wd(8), r_type(51, 3, 0, 1, 2, 0)>>,
       <<Wd(12), r_type(51, 4, 0, 1, 2, 32)>>,
       <<Wd(16), r_type(51, 5, 7, 1, 2, 0)>> >>

\* main.rs, test_register_zero
RegisterZeroProgram ==
    << <<Wd(0), i_type(19, 0, 0, 0, 100)>>,
       <<Wd(4), i_type(19, 1, 0, 0, 50)>> >>

\* lib.rs, test_basic_execution
BasicProgram == << <<Wd(0), i_type(19, 1, 0, 0, 42)>> >>

\* jumps: JAL and JALR with targets that are and are not multiples of 4,
\* with rd = 0, with rd = rs1, and at the last word of memory
JumpProgram ==
    << <<Wd(0), j_type(111, 1, 8)>>,
       <<Wd(4), j_type(111, 0, -4)>>,
       <<Wd(8), i_type(103, 1, 0, 1, 5)>>,
       <<Wd(12), i_type(103, 2, 0, 0, 6)>>,
       <<Wd(16), j_type(111, 3, 6)>>,
       <<Wd(20), i_type(103, 0, 0, 1, -4)>>,
       <<Wd(4092), j_type(111, 5, 8)>> >>

\* a taken and an untaken branch, an unrecognized word, entries at a
\* misaligned and at an out-of-range address, two entries for one address
\* (SW then SB x4, 4(x0)), ECALL, and SH x6, 6(x0)
OddProgram ==
    << <<Wd(0), b_type(99, 0, 0, 0, 8)>>,
       <<Wd(8), b_type(99, 1, 0, 0, 8)>>,
       <<Wd(2), i_type(19, 1, 0, 0, 7)>>,
       <<Wd(4096), i_type(19, 1, 0, 0, 9)>>,
       <<Wd(4), W(65535, 65535)>>,
       <<Wd(12), s_type(35, 2, 0, 4, 4)>>,
       <<Wd(12), s_type(35, 0, 0, 4, 4)>>,
       <<Wd(16), i_type(115, 0, 0, 0, 0)>>,
       <<Wd(20), s_type(35, 1, 0, 6, 6)>> >>

\* examples/fibonacci.rs: the branch word is built from an R-type word with
\* 1 in its rd field and 0 in its funct3 field, or-ed with the bits of -16
FibonacciProgram ==
    << <<Wd(0), i_type(19, 1, 0, 0, 1)>>,
       <<Wd(4), i_type(19, 2, 0, 0, 1)>>,
       <<Wd(8), i_type(19, 3, 0, 0, 10)>>,
       <<Wd(12), r_type(51, 4, 0, 1, 2, 0)>>,
       <<Wd(16), r_type(51, 1, 0, 2, 0, 0)>>,
       <<Wd(20), r_type(51, 2, 0, 4, 0, 0)>>,
       <<Wd(24), i_type(19, 3, 0, 3, -1)>>,
       <<Wd(28), BitOr(BitOr(r_type(99, 1, 0, 3, 0, 0),
                             Shl(BitAnd(FromI32(-16), Wd(4096)), 19)),
                       BitOr(BitOr(Shl(BitAnd(FromI32(-16), Wd(2016)), 20),
                                   Shl(BitAnd(FromI32(-16), Wd(30)), 7)),
                             Shr(BitAnd(FromI32(-16), Wd(2048)), 4)))>> >>

\* run_cycles(100)
FibonacciCycles == 100

\* a loop for the debugger: 0 -> 4 -> 12 -> 0, never at 8
DebugProgram ==
    << <<Wd(0), i_type(19, 1, 0, 1, 1)>>,
       <<Wd(4), j_type(111, 0, 8)>>,
       <<Wd(12), j_type(111, 0, -12)>> >>

\* breakpoints on the loop, off the loop, and not multiples of 4
BreakInputs == {Wd(0), Wd(12), Wd(8), Wd(6), Wd(13)}

MaxBreakpoints == 2

\* words to disassemble: every funct3 and funct7 under OP and OP-IMM, and
\* every funct3 under the other opcodes and one that is none
DisasmWords ==
    {r_type(op, 3, f3, 1, 2, f7) : op \in {19, 51}, f3 \in 0..7, f7 \in 0..127}
    \cup {r_type(op, 3, f3, 1, 2, f7) :
              op \in {55, 23, 111, 103, 99, 3, 35, 115, 0}, f3 \in 0..7, f7 \in {0, 32}}
    \cup {Wd(115), W(16, 115)}

\* immediates to encode, <<format, immediate>>: every value of the 12-bit and
\* 13-bit ranges, and for the 21-bit and the 32-bit range the ends, every
\* single bit and every run of low or of high bits
ImmInputs ==
    {<<f, imm>> : f \in {"I", "S"}, imm \in -2048..2047}
    \cup {<<"B", 2 * k>> : k \in -2048..2047}
    \cup {<<"J", s * (2 ^ k)>> : s \in {-1, 1}, k \in 1..19}
    \cup {<<"J", (2 ^ k) - 2>> : k \in 1..20}
    \cup {<<"J", imm>> : imm \in {0, -1048576}}
    \cup {<<"U", s * (2 ^ k)>> : s \in {-1, 1}, k \in 12..30}
    \cup {<<"U", (2 ^ k) - 4096>> : k \in 12..30}
    \cup {<<"U", imm>> : imm \in {0, 2147479552, (-1073741824) * 2}}

\* the register fields packed around the immediate: all zero, all one
FieldInputs == {0, 31}

\* words to extract the immediates of: the branch of the Fibonacci example,
\* all zero, all one, and each bit alone
WordInputs ==
    {FibonacciProgram[8][2], Wd(0), W(65535, 65535)}
    \cup {W(2 ^ k, 0) : k \in 0..15} \cup {W(0, 2 ^ k) : k \in 0..15}

\* what the latches of a Cpu may hold from earlier clocks: a word for the
\* data and address latches, a flag for the enables, zero and every control
\* signal, a register index for the read ports
StaleLatches ==
    {[word |-> w, flag |-> f, index |-> i, alu_op |-> op] :
        w \in {W(65535, 65535)}, f \in BOOLEAN, i \in {5}, op \in {"PassA", "Sra"}}
    \cup {[word |-> Wd(64), flag |-> TRUE, index |-> 31, alu_op |-> "Sub"]}

\* entries to record
TraceEntries ==
    {[cycle |-> 1, pc |-> Wd(0), instruction |-> i_type(19, 1, 0, 0, 42),
      disassembly |-> "addi"],
     [cycle |-> 2, pc |-> Wd(4), instruction |-> r_type(51, 3, 0, 1, 2, 0),
      disassembly |-> "add"],
     [cycle |-> 3, pc |-> Wd(8), instruction |-> Wd(0), disassembly |-> ""]}

\* the largest max_entries of a trace
MaxEntries == 3

\* the calls made on a trace
MaxRecords == 5

\* instructions of the prototype: every AluOp, and the byte after the last
\* discriminant, with a small address and the largest one
ProtoInstructions ==
    {[opcode |-> o, address |-> a, flags |-> 0] : o \in 0..9, a \in {4, 65535}}

\* accumulator values the test of main.rs sets, and the all-one word
AccumulatorInputs == {Wd(0), Wd(255), W(65535, 65535)}

\* the clock calls made on the prototype Alu
MaxClocks == 5

\* the lines of the assembler's inputs
AddiX1 == SourceLine(<<"addi", "x1,", "x0,", "42">>, FALSE, FALSE)

AddiX2 == SourceLine(<<"addi", "x2,", "x0,", "8">>, FALSE, FALSE)

AddX3 == SourceLine(<<"add", "x3,", "x1,", "x2">>, FALSE, FALSE)

AsmLines ==
    {AddiX1, AddiX2, AddX3,
     SourceLine(<<"ADDI", "x1,", "x0,", "42">>, FALSE, FALSE),
     SourceLine(<<>>, FALSE, FALSE),
     SourceLine(<<"#", "loop:">>, TRUE, TRUE),
     SourceLine(<<"loop:">>, FALSE, TRUE),
     SourceLine(<<"end:">>, FALSE, TRUE)}

\* the source of the module's example: the string starts and ends with a line
\* of white space only
ExampleSource == <<SourceLine(<<>>, FALSE, FALSE), AddiX1, AddiX2, AddX3,
                   SourceLine(<<>>, FALSE, FALSE)>>

\* the longest source besides the example
MaxLines == 2

AsmSources ==
    {ExampleSource} \cup UNION {[1..n -> AsmLines] : n \in 0..MaxLines}

\* the clock() calls a debugger session may make
DebugCycles == 6

Programs == {DemoProgram, JumpProgram, OddProgram}

MaxSteps == 3

MaxRun == 2

PcInputs == {Wd(12), Wd(16), Wd(20), W(65535, 65532), W(65535, 65535)}

TargetInputs == {Wd(7), W(65535, 65534)}

InstInputs == {j_type(111, 1, 8), b_type(99, 0, 0, 0, 8), i_type(19, 1, 0, 0, 42)}

\* <<addr_a, write_data_a, write_enable_a, addr_b>>
RegInputs ==
    {<<0, Wd(999), TRUE, 1>>, <<1, Wd(999), TRUE, 0>>,
     <<1, Wd(0), FALSE, 1>>, <<32, Wd(999), TRUE, 0>>}

DataInputs == {W(57005, 48879)}

AddrInputs == {Wd(0), Wd(1), Wd(2), Wd(4099), Wd(4100)}

MaskInputs == {1, 3, 15, 5}

AluOps ==
    {"Add", "Sub", "And", "Or", "Xor", "Sll", "Srl", "Sra", "Slt", "Sltu", "PassA", "PassB"}

\* operands of main.rs test_alu_operations and lib.rs test_alu_operations, the
\* extremes of the signed and unsigned ranges, and shift amounts around 32
AluOperands ==
    {Wd(0), Wd(1), Wd(2), Wd(4), Wd(5), Wd(10), Wd(15), Wd(16), Wd(20), Wd(30),
     Wd(31), Wd(32), Wd(33), Wd(170), Wd(240), Wd(255),
     W(32767, 65535), W(32768, 0), W(65535, 65520), W(65535, 65535)}

ProtoOps == {"Nop", "Add", "Sub", "And", "Or", "Xor", "Not", "Shl", "Shr"}

\* operands at the ends of the signed and of the unsigned range
ProtoOperands == {Wd(0), Wd(1), W(32767, 65535), W(32768, 0), W(65535, 65535)}

ReturnOperands == {Wd(0), Wd(1), W(65535, 65535)}

\* register values at the ends of the signed and of the unsigned range
RegValues == {Wd(0), Wd(1), W(32767, 65535), W(32768, 0), W(65535, 65535)}

\* the address the instruction under execution is placed at
ExecPc == Wd(16)

\* a data word and the address it is loaded at
DataWord == W(33153, 65408)

DataAddr == Wd(64)

\* one instruction to execute: <<program, pc, register writes>>, the
\* instruction at ExecPc, b in the register its rs2 field names and a in the
\* register its rs1 field names
One(inst, a, b) ==
    << << <<ExecPc, inst>>, <<DataAddr, DataWord>> >>, ExecPc,
       << <<rs2(inst), b>>, <<rs1(inst), a>> >> >>

\* every branch funct3, forward, backward and to a target that is not a
\* multiple of 4, on every pair of register values
BranchInputs ==
    {One(b_type(99, f3, 1, 2, imm), a, b) :
        f3 \in 0..7, imm \in {8, -8, 6}, a \in RegValues, b \in RegValues}

\* loads of every width at aligned and misaligned addresses
LoadInputs ==
    {One(i_type(3, 3, f3, 1, imm), a, Wd(0)) :
        f3 \in {0, 1, 2, 4, 5}, imm \in {8, 64, 65, 66}, a \in {Wd(0), Wd(56)}}
    \cup {One(i_type(3, d, f3, 1, imm), a, Wd(0)) :
              d \in {0, 3}, f3 \in {0, 1, 2, 4, 5}, imm \in {-1, 65},
              a \in {Wd(4096), W(65535, 65535)}}
    \cup {One(i_type(3, 0, f3, 1, 66), Wd(0), Wd(0)) : f3 \in {0, 1, 2, 4, 5}}

\* JAL and JALR with and without a link register
JumpInputs ==
    {One(j_type(111, d, 8), Wd(0), Wd(0)) : d \in {0, 3}}
    \cup {One(i_type(103, d, 0, 1, 8), Wd(32), Wd(0)) : d \in {0, 3}}

\* register-register and register-immediate arithmetic
OpInputs ==
    {One(r_type(51, d, f3, 1, 2, f7), a, b) :
        d \in {0, 3}, f3 \in {0, 2, 7}, f7 \in {0, 32},
        a \in {Wd(5), W(65535, 65535)}, b \in {Wd(5), W(65535, 65535)}}
    \cup {One(i_type(19, d, 0, 1, 5), a, Wd(0)) : d \in {0, 3}, a \in {Wd(5), W(65535, 65535)}}

\* stores of every width; the S immediate and bits 31:20 of the word agree
\* for SW x4, 4(x1) and differ for the others
StoreInputs ==
    {One(s_type(35, f3, 1, s2, imm), a, W(57005, 48879)) :
        f3 \in {0, 1, 2}, s2 \in {2, 4}, imm \in {4, 8, 64, -4}, a \in {Wd(0), Wd(64)}}

\* LUI and AUIPC x3 with upper immediates 0, 0x12345 and 0xFFFFF
UpperInputs ==
    {One(W(hi, lo16 + 3 * 128 + op), Wd(0), Wd(0)) :
        hi \in {0, 4660, 65535}, lo16 \in {0, 20480, 61440}, op \in {55, 23}}

\* an unrecognized word, ECALL, FENCE and the zero word
OtherInputs ==
    {One(w, Wd(0), Wd(0)) : w \in {W(65535, 65535), i_type(115, 0, 0, 0, 0),
                                    i_type(15, 0, 0, 0, 0), Wd(0)}}

\* two instructions to execute in a row, at ExecPc and after it
Two(first, second, writes) ==
    << << <<ExecPc, first>>, <<wrapping_add(ExecPc, Wd(4)), second>>,
          <<DataAddr, DataWord>> >>, ExecPc, writes >>

\* a register write then its use; a word store then a load of that word; a
\* word store onto the next instruction; a jump onto the data word
SequenceInputs ==
    {Two(i_type(19, 3, 0, 1, 5), r_type(51, 5, 0, 3, 3, 0), << <<1, a>> >>) :
        a \in {Wd(5), W(65535, 65535)}}
    \cup {Two(s_type(35, 2, 1, 4, 4), i_type(3, 3, 2, 0, 64),
               << <<1, Wd(60)>>, <<4, W(57005, 48879)>> >>),
           Two(s_type(35, 2, 1, 4, 4), Wd(0),
               << <<1, Wd(16)>>, <<4, i_type(19, 3, 0, 0, 7)>> >>),
           Two(j_type(111, 1, 48), Wd(0), <<>>)}

ExecInputs ==
    BranchInputs \cup LoadInputs \cup JumpInputs \cup OpInputs \cup StoreInputs
    \cup UpperInputs \cup OtherInputs \cup SequenceInputs

\* <<addr_a, write_data_a, write_enable_a, addr_b>>: register 0, the first and
\* the last register, with and without write enable
RegFileInputs ==
    {<<a, d, en, b>> : a \in {0, 1, 31}, d \in {Wd(999), W(65535, 65535)},
                       en \in BOOLEAN, b \in {0, 1}}

\* every opcode and funct3 with all-ones and all-zeros funct7 and register
\* fields 31, on register values that make addresses and shift amounts large
TotalWords == {r_type(op, 31, f3, 31, 31, f7) : op \in 0..127, f3 \in 0..7, f7 \in {0, 127}}

TotalValues == {W(65535, 65535), W(32768, 1)}

\* instruction words for the decoder: every opcode with every funct3 and the
\* two funct7 values of RV32I, and OP-IMM and OP with every funct3 and funct7
DecodeInputs ==
    {r_type(op, 1, f3, 2, 3, f7) : op \in 0..127, f3 \in 0..7, f7 \in {0, 32}}
    \cup {r_type(op, 1, f3, 2, 3, f7) : op \in {19, 51}, f3 \in 0..7, f7 \in 0..127}

(***************************************************************************)
(* The state machine: a Cpu and the operations a caller performs on it and *)
(* on its public submodules.  last records the operation just performed    *)
(* (with the PC and the instruction word at the PC before it), steps the   *)
(* number of operations so far.                                            *)
(***************************************************************************)
Self ==
    [memory |-> memory, registers |-> registers, control |-> control,
     alu |-> alu, cycle_count |-> cycle_count]

Becomes(c) ==
    /\ memory' = c.memory
    /\ registers' = c.registers
    /\ control' = c.control
    /\ alu' = c.alu
    /\ cycle_count' = c.cycle_count
    /\ proto_cpu' = proto_cpu

\* the prototype ALU, the debugger's breakpoints and the trace are untouched
\* by the operations on the Cpu
ToolsUnchanged == UNCHANGED <<proto_alu, debugger, trace, asm, twin>>

CpuUnchanged == UNCHANGED <<memory, registers, control, alu, cycle_count, proto_cpu>>

Did(op, arg) ==
    /\ steps < MaxSteps
    /\ steps' = steps + 1
    /\ last' = [op |-> op, arg |-> arg, pc |-> control.program_counter,
                inst |-> Memory_fetch(memory, control.program_counter)]
    /\ ToolsUnchanged

Init ==
    /\ memory = Cpu_new.memory
    /\ registers = Cpu_new.registers
    /\ control = Cpu_new.control
    /\ alu = Cpu_new.alu
    /\ cycle_count = Cpu_new.cycle_count
    /\ proto_cpu = ProtoCpu_new
    /\ proto_alu = ProtoAlu_new
    /\ asm = Assembler_new
    /\ twin = NoTwin
    /\ debugger = Debugger_new
    /\ trace = ExecutionTrace_new(0)
    /\ last = [op |-> "new", arg |-> <<>>, pc |-> Wd(0), inst |-> Wd(0)]
    /\ steps = 0

\* Cpu::clock
Clock ==
    /\ Did("clock", <<>>)
    /\ Becomes(Cpu_clock(Self))

\* Cpu::run_cycles(count)
RunCycles ==
    \E count \in 0..MaxRun :
        /\ Did("run_cycles", <<count>>)
        /\ Becomes(Cpu_run_cycles(Self, count))

\* Cpu::reset
Reset ==
    /\ Did("reset", <<>>)
    /\ Becomes(Cpu_reset(Self))

\* Cpu::load_program(program)
LoadProgram ==
    \E program \in Programs :
        /\ Did("load_program", program)
        /\ Becomes(Cpu_load_program(Self, program))

\* cpu.registers.clock(addr_a, write_data_a, write_enable_a, addr_b)
RegClock ==
    \E in \in RegInputs :
        /\ Did("registers.clock", in)
        /\ registers' = RegisterFile_clock(registers, in[1], in[2], in[3], in[4])
        /\ UNCHANGED <<memory, control, alu, cycle_count, proto_cpu>>

\* cpu.memory.clock(read_en, write_en, addr, data)
MemClock ==
    \E read_en \in BOOLEAN, write_en \in BOOLEAN, addr \in AddrInputs, data \in DataInputs :
        /\ Did("memory.clock", <<read_en, write_en, addr, data>>)
        /\ memory' = Memory_clock(memory, read_en, write_en, addr, data)
        /\ UNCHANGED <<registers, control, alu, cycle_count, proto_cpu>>

\* cpu.memory.fetch(addr): the word returned is recorded with the address
MemFetch ==
    \E addr \in AddrInputs :
        /\ Did("memory.fetch", <<addr, Memory_fetch(memory, addr)>>)
        /\ UNCHANGED <<memory, registers, control, alu, cycle_count, proto_cpu>>

\* cpu.memory.set_write_mask(mask)
SetWriteMask ==
    \E mask \in MaskInputs :
        /\ Did("memory.set_write_mask", <<mask>>)
        /\ memory' = Memory_set_write_mask(memory, mask)
        /\ UNCHANGED <<registers, control, alu, cycle_count, proto_cpu>>

\* cpu.control.clock(instruction)
ControlClock ==
    \E instruction \in InstInputs :
        /\ Did("control.clock", <<instruction>>)
        /\ control' = ControlUnit_clock(control, instruction)
        /\ UNCHANGED <<memory, registers, alu, cycle_count, proto_cpu>>

\* a new Cpu and an instruction word for its control unit
InitDecode ==
    /\ memory = Cpu_new.memory
    /\ registers = Cpu_new.registers
    /\ control = Cpu_new.control
    /\ alu = Cpu_new.alu
    /\ cycle_count = Cpu_new.cycle_count
    /\ proto_cpu = ProtoCpu_new
    /\ proto_alu = ProtoAlu_new
    /\ asm = Assembler_new
    /\ twin = NoTwin
    /\ debugger = Debugger_new
    /\ trace = ExecutionTrace_new(0)
    /\ \E instruction \in DecodeInputs :
           last = [op |-> "input", arg |-> <<instruction>>, pc |-> Wd(0), inst |-> Wd(0)]
    /\ steps = 0

\* cpu.control.clock(instruction) with the instruction word drawn
ControlClockAny ==
    /\ last.op = "input"
    /\ Did("control.clock", last.arg)
    /\ control' = ControlUnit_clock(control, last.arg[1])
    /\ UNCHANGED <<memory, registers, alu, cycle_count, proto_cpu>>

\* cpu.control.update_pc(branch_taken, jump_target)
UpdatePc ==
    \E branch_taken \in BOOLEAN, jump_target \in TargetInputs :
        /\ Did("control.update_pc", <<branch_taken, jump_target>>)
        /\ control' = ControlUnit_update_pc(control, branch_taken, jump_target)
        /\ UNCHANGED <<memory, registers, alu, cycle_count, proto_cpu>>

\* cpu.control.set_pc(pc)
SetPc ==
    \E pc \in PcInputs :
        /\ Did("control.set_pc", <<pc>>)
        /\ control' = ControlUnit_set_pc(control, pc)
        /\ UNCHANGED <<memory, registers, alu, cycle_count, proto_cpu>>

\* main.rs, test_risc_v_instructions: the Cpu the demo ends with
test_risc_v_instructions ==
    Cpu_run_cycles(Cpu_reset(Cpu_load_program(Cpu_new, DemoProgram)), 5)

\* main.rs, test_register_zero
test_register_zero ==
    Cpu_run_cycles(Cpu_reset(Cpu_load_program(Cpu_new, RegisterZeroProgram)), 2)

\* lib.rs, test_basic_execution
test_basic_execution ==
    Cpu_clock(Cpu_reset(Cpu_load_program(Cpu_new, BasicProgram)))

\* main runs the demonstrations, each on a Cpu of its own
Demo ==
    \/ Did("test_risc_v_instructions", <<>>) /\ Becomes(test_risc_v_instructions)
    \/ Did("test_register_zero", <<>>) /\ Becomes(test_register_zero)
    \/ Did("test_basic_execution", <<>>) /\ Becomes(test_basic_execution)

\* cpu.memory.reset
MemReset ==
    /\ Did("memory.reset", <<>>)
    /\ memory' = Memory_reset(memory)
    /\ UNCHANGED <<registers, control, alu, cycle_count, proto_cpu>>

Next ==
    \/ Clock
    \/ RunCycles
    \/ Reset
    \/ LoadProgram
    \/ RegClock
    \/ ControlClock
    \/ UpdatePc
    \/ SetPc
    \/ Demo

Spec == Init /\ [][Next]_vars

\* the memory on its own: loads, accesses of each width, resets
NextMem ==
    \/ LoadProgram
    \/ MemClock
    \/ MemFetch
    \/ SetWriteMask
    \/ MemReset

SpecMem == Init /\ [][NextMem]_vars

\* a new Cpu and an operation and two operands for its ALU
InitAlu ==
    /\ memory = Cpu_new.memory
    /\ registers = Cpu_new.registers
    /\ control = Cpu_new.control
    /\ alu = Cpu_new.alu
    /\ cycle_count = Cpu_new.cycle_count
    /\ proto_cpu = ProtoCpu_new
    /\ proto_alu = ProtoAlu_new
    /\ asm = Assembler_new
    /\ twin = NoTwin
    /\ debugger = Debugger_new
    /\ trace = ExecutionTrace_new(0)
    /\ \E op \in AluOps, a \in AluOperands, b \in AluOperands :
           last = [op |-> "input", arg |-> <<op, a, b>>, pc |-> Wd(0), inst |-> Wd(0)]
    /\ steps = 0

\* cpu.alu.execute(op, a, b) with the operation and operands drawn
AluExecute ==
    /\ last.op = "input"
    /\ Did("alu.execute", last.arg)
    /\ alu' = Alu_execute(alu, last.arg[1], last.arg[2], last.arg[3])
    /\ UNCHANGED <<memory, registers, control, cycle_count, proto_cpu>>

\* the ALU on its own
NextAlu == AluExecute

SpecAlu == InitAlu /\ [][NextAlu]_vars

\* execute_alu(op, a, b) of the prototype Cpu; the prototype and the
\* simulator are two programs, a run makes the calls of one of them
ProtoExecuteAlu ==
    \E op \in ProtoOps, a \in ProtoOperands, b \in ProtoOperands :
        /\ last.op \in {"new", "proto.execute_alu"}
        /\ Did("proto.execute_alu", <<op, a, b>>)
        /\ proto_cpu' = ProtoCpu_execute_alu(proto_cpu, op, a, b)
        /\ UNCHANGED <<memory, registers, control, alu, cycle_count>>

\* cpu.alu.execute(op, a, b), the value it returns recorded with the call
AluExecuteReturn ==
    \E op \in AluOps, a \in ReturnOperands, b \in ReturnOperands :
        /\ last.op \in {"new", "alu.execute"}
        /\ Did("alu.execute", <<op, a, b, AluValue(op, a, b)>>)
        /\ alu' = Alu_execute(alu, op, a, b)
        /\ UNCHANGED <<memory, registers, control, cycle_count, proto_cpu>>

\* the two ALUs under sequences of calls
NextFlags == ProtoExecuteAlu \/ AluExecuteReturn

SpecFlags == Init /\ [][NextFlags]_vars

RECURSIVE WriteRegisters(_, _)
\* cpu.registers.clock(r, v, true, 0) for each <<r, v>> of writes, in order
WriteRegisters(self, writes) ==
    IF writes = <<>> THEN self
    ELSE WriteRegisters(RegisterFile_clock(self, Head(writes)[1], Head(writes)[2], TRUE, 0),
                        Tail(writes))

\* a Cpu made ready for a run: load_program, set_pc, register writes
ExecStart(e) ==
    LET c == Cpu_load_program(Cpu_new, e[1])
    IN  [c EXCEPT !.control = ControlUnit_set_pc(@, e[2]),
                  !.registers = WriteRegisters(@, e[3])]

InitExec ==
    \E e \in ExecInputs :
        /\ memory = ExecStart(e).memory
        /\ registers = ExecStart(e).registers
        /\ control = ExecStart(e).control
        /\ alu = ExecStart(e).alu
        /\ cycle_count = ExecStart(e).cycle_count
        /\ proto_cpu = ProtoCpu_new
        /\ proto_alu = ProtoAlu_new
        /\ asm = Assembler_new
        /\ twin = NoTwin
        /\ debugger = Debugger_new
        /\ trace = ExecutionTrace_new(0)
        /\ last = [op |-> "input", arg |-> e[3], pc |-> Wd(0), inst |-> Wd(0)]
        /\ steps = 0

\* clock cycles of a Cpu made ready with one instruction
NextExec == Clock

SpecExec == InitExec /\ [][NextExec]_vars

\* an operation of a scripted run, recorded in last
Scripted(op, arg) ==
    /\ last' = [op |-> op, arg |-> arg, pc |-> control.program_counter,
                inst |-> Memory_fetch(memory, control.program_counter)]
    /\ UNCHANGED steps
    /\ ToolsUnchanged

\* examples/fibonacci.rs: cpu.load_program(&program)
FibonacciLoad ==
    /\ last.op = "new"
    /\ Scripted("load_program", <<>>)
    /\ Becomes(Cpu_load_program(Self, FibonacciProgram))

\* examples/fibonacci.rs: cpu.reset()
FibonacciReset ==
    /\ last.op = "load_program"
    /\ Scripted("reset", <<>>)
    /\ Becomes(Cpu_reset(Self))

\* examples/fibonacci.rs: one iteration of cpu.run_cycles(100)
FibonacciCycle ==
    /\ last.op \in {"reset", "clock"}
    /\ cycle_count < FibonacciCycles
    /\ Scripted("clock", <<>>)
    /\ Becomes(Cpu_clock(Self))

NextFibonacci == FibonacciLoad \/ FibonacciReset \/ FibonacciCycle

SpecFibonacci == Init /\ [][NextFibonacci]_vars

\* cpu.registers.clock(addr_a, write_data_a, write_enable_a, addr_b)
RegClockAny ==
    \E in \in RegFileInputs :
        /\ Did("registers.clock", in)
        /\ registers' = RegisterFile_clock(registers, in[1], in[2], in[3], in[4])
        /\ UNCHANGED <<memory, control, alu, cycle_count, proto_cpu>>

\* the register file on its own
NextRegs == RegClockAny

SpecRegs == Init /\ [][NextRegs]_vars

\* a Cpu with any instruction word at its PC, register values and write mask
InitTotal ==
    \E w \in TotalWords, v \in TotalValues, mask \in MaskInputs :
        LET c == ExecStart(One(w, v, v))
        IN  /\ memory = Memory_set_write_mask(c.memory, mask)
            /\ registers = c.registers
            /\ control = c.control
            /\ alu = c.alu
            /\ cycle_count = c.cycle_count
            /\ proto_cpu = ProtoCpu_new
            /\ proto_alu = ProtoAlu_new
            /\ asm = Assembler_new
            /\ twin = NoTwin
            /\ debugger = Debugger_new
            /\ trace = ExecutionTrace_new(0)
            /\ last = [op |-> "input", arg |-> <<w, v, mask>>, pc |-> Wd(0), inst |-> Wd(0)]
            /\ steps = 0

\* Cpu::clock, with the indices it uses recorded, or its panic
ClockTotal ==
    /\ last.op = "input"
    /\ IF Cpu_clock_panics(Self)
       THEN /\ Did("clock.panic", Cpu_clock_indices(Self))
            /\ UNCHANGED <<memory, registers, control, alu, cycle_count, proto_cpu>>
       ELSE /\ Did("clock", Cpu_clock_indices(Self))
            /\ Becomes(Cpu_clock(Self))

NextTotal == ClockTotal

SpecTotal == InitTotal /\ [][NextTotal]_vars

\* Assembler::new()
InitAsm ==
    /\ memory = Cpu_new.memory
    /\ registers = Cpu_new.registers
    /\ control = Cpu_new.control
    /\ alu = Cpu_new.alu
    /\ cycle_count = Cpu_new.cycle_count
    /\ proto_cpu = ProtoCpu_new
    /\ proto_alu = ProtoAlu_new
    /\ debugger = Debugger_new
    /\ trace = ExecutionTrace_new(0)
    /\ asm = Assembler_new
    /\ twin = NoTwin
    /\ last = [op |-> "new", arg |-> <<>>, pc |-> Wd(0), inst |-> Wd(0)]
    /\ steps = 0

\* Assembler::assemble(source)
AssemblerAssemble ==
    \E source \in AsmSources :
        /\ steps < MaxSteps
        /\ steps' = steps + 1
        /\ last' = [op |-> "assemble", arg |-> source, pc |-> Wd(0), inst |-> Wd(0)]
        /\ asm' = Assembler_assemble(asm, source)
        /\ UNCHANGED <<memory, registers, control, alu, cycle_count, proto_cpu,
                       proto_alu, debugger, trace, twin>>

NextAsm == AssemblerAssemble

SpecAsm == InitAsm /\ [][NextAsm]_vars

\* a word to disassemble and to decode
InitDisasm ==
    /\ memory = Cpu_new.memory
    /\ registers = Cpu_new.registers
    /\ control = Cpu_new.control
    /\ alu = Cpu_new.alu
    /\ cycle_count = Cpu_new.cycle_count
    /\ proto_cpu = ProtoCpu_new
    /\ proto_alu = ProtoAlu_new
    /\ debugger = Debugger_new
    /\ trace = ExecutionTrace_new(0)
    /\ asm = Assembler_new
    /\ twin = NoTwin
    /\ \E word \in DisasmWords :
           last = [op |-> "input", arg |-> <<word>>, pc |-> Wd(0), inst |-> word]
    /\ steps = 0

\* disassemble(word), and control.clock(word) on the same word
Disassemble ==
    /\ last.op = "input"
    /\ last' = [last EXCEPT !.op = "disassemble",
                            !.arg = <<last.inst, disassemble(last.inst)>>]
    /\ control' = ControlUnit_clock(control, last.inst)
    /\ UNCHANGED <<memory, registers, alu, cycle_count, proto_cpu, proto_alu,
                   debugger, trace, asm, twin, steps>>

NextDisasm == Disassemble

SpecDisasm == InitDisasm /\ [][NextDisasm]_vars

\* the word InstructionEncoder packs an immediate into, for each format
EncodeImmediate(format, imm, field) ==
    CASE format = "I" -> i_type(19, field, 0, field, imm)
      [] format = "S" -> s_type(35, 2, field, field, imm)
      [] format = "B" -> b_type(99, 1, field, field, imm)
      [] format = "U" -> u_type(55, field, imm)
      [] format = "J" -> j_type(111, field, imm)

\* the accessor of Instruction that matches a format
ExtractImmediate(format, inst) ==
    CASE format = "I" -> imm_i(inst)
      [] format = "S" -> imm_s(inst)
      [] format = "B" -> imm_b(inst)
      [] format = "U" -> imm_u(inst)
      [] format = "J" -> imm_j(inst)

\* an immediate to encode, or a word to decode
InitImm ==
    /\ memory = Cpu_new.memory
    /\ registers = Cpu_new.registers
    /\ control = Cpu_new.control
    /\ alu = Cpu_new.alu
    /\ cycle_count = Cpu_new.cycle_count
    /\ proto_cpu = ProtoCpu_new
    /\ proto_alu = ProtoAlu_new
    /\ debugger = Debugger_new
    /\ trace = ExecutionTrace_new(0)
    /\ asm = Assembler_new
    /\ twin = NoTwin
    /\ \/ \E e \in ImmInputs, field \in FieldInputs :
              last = [op |-> "input", arg |-> <<e[1], e[2], field>>,
                      pc |-> Wd(0), inst |-> Wd(0)]
       \/ \E word \in WordInputs :
              last = [op |-> "input", arg |-> <<"word">>, pc |-> Wd(0), inst |-> word]
    /\ steps = 0

\* InstructionEncoder packs the immediate, Instruction::new takes the word
\* and the accessor of the format extracts the immediate: arg[4]
EncodeExtract ==
    /\ last.op = "input"
    /\ last.arg[1] # "word"
    /\ LET word == EncodeImmediate(last.arg[1], last.arg[2], last.arg[3])
       IN  last' = [last EXCEPT
                        !.op = "encode",
                        !.inst = word,
                        !.arg = Append(last.arg,
                                       ExtractImmediate(last.arg[1], Instruction_new(word)))]
    /\ UNCHANGED <<memory, registers, control, alu, cycle_count, proto_cpu, proto_alu,
                   debugger, trace, asm, twin, steps>>

\* Instruction::new takes a word and imm_b and imm_j extract: arg[2], arg[3]
Extract ==
    /\ last.op = "input"
    /\ last.arg[1] = "word"
    /\ last' = [last EXCEPT
                    !.op = "extract",
                    !.arg = <<"word", imm_b(Instruction_new(last.inst)),
                              imm_j(Instruction_new(last.inst))>>]
    /\ UNCHANGED <<memory, registers, control, alu, cycle_count, proto_cpu, proto_alu,
                   debugger, trace, asm, twin, steps>>

NextImm ==
    \/ EncodeExtract
    \/ Extract

SpecImm == InitImm /\ [][NextImm]_vars

\* the Cpu c with its latches holding p; memory contents, the 32 registers,
\* the PC and the write mask stay those of c
Stale(c, p) ==
    [c EXCEPT
       !.memory = [@ EXCEPT !.read_data = p.word, !.address = p.word,
                            !.write_data = p.word, !.read_enable = p.flag,
                            !.write_enable = p.flag],
       !.registers = [@ EXCEPT !.addr_a = p.index, !.addr_b = p.index,
                               !.read_data_a = p.word, !.read_data_b = p.word,
                               !.write_data_a = p.word, !.write_enable_a = p.flag],
       !.alu = [@ EXCEPT !.result = p.word, !.zero = p.flag],
       !.control = [@ EXCEPT
                      !.current_instruction = p.word,
                      !.control_signals =
                          [alu_op |-> p.alu_op, alu_src |-> p.flag, mem_read |-> p.flag,
                           mem_write |-> p.flag, mem_to_reg |-> p.flag,
                           reg_write |-> p.flag, branch |-> p.flag, jump |-> p.flag]]]

\* two Cpu instances with one memory content, register values, PC and write
\* mask: one with the latches of a new Cpu, the twin with stale latches
InitTwin ==
    \E e \in ExecInputs, p \in StaleLatches :
        /\ memory = ExecStart(e).memory
        /\ registers = ExecStart(e).registers
        /\ control = ExecStart(e).control
        /\ alu = ExecStart(e).alu
        /\ cycle_count = ExecStart(e).cycle_count
        /\ proto_cpu = ProtoCpu_new
        /\ proto_alu = ProtoAlu_new
        /\ asm = Assembler_new
        /\ twin = Stale(ExecStart(e), p)
        /\ debugger = Debugger_new
        /\ trace = ExecutionTrace_new(0)
        /\ last = [op |-> "input", arg |-> <<p>>, pc |-> Wd(0), inst |-> Wd(0)]
        /\ steps = 0

\* clock() on each of the two instances
TwinClock ==
    /\ steps < MaxSteps
    /\ steps' = steps + 1
    /\ last' = [op |-> "twin.clock", arg |-> last.arg, pc |-> control.program_counter,
                inst |-> Memory_fetch(memory, control.program_counter)]
    /\ Becomes(Cpu_clock(Self))
    /\ twin' = Cpu_clock(twin)
    /\ UNCHANGED <<proto_alu, debugger, trace, asm>>

NextTwin == TwinClock

SpecTwin == InitTwin /\ [][NextTwin]_vars

\* ExecutionTrace::new(max_entries); last.arg is the sequence of the entries
\* recorded since new or the last clear
InitTrace ==
    \E max_entries \in 0..MaxEntries :
        /\ memory = Cpu_new.memory
        /\ registers = Cpu_new.registers
        /\ control = Cpu_new.control
        /\ alu = Cpu_new.alu
        /\ cycle_count = Cpu_new.cycle_count
        /\ proto_cpu = ProtoCpu_new
        /\ proto_alu = ProtoAlu_new
        /\ asm = Assembler_new
        /\ twin = NoTwin
        /\ debugger = Debugger_new
        /\ trace = ExecutionTrace_new(max_entries)
        /\ last = [op |-> "trace.new", arg |-> <<>>, pc |-> Wd(0), inst |-> Wd(0)]
        /\ steps = 0

\* ExecutionTrace::record(entry)
TraceRecord ==
    \E entry \in TraceEntries :
        /\ steps < MaxRecords
        /\ steps' = steps + 1
        /\ last' = [last EXCEPT !.op = "trace.record", !.arg = Append(@, entry)]
        /\ trace' = ExecutionTrace_record(trace, entry)
        /\ CpuUnchanged
        /\ UNCHANGED <<proto_alu, debugger, asm, twin>>

\* ExecutionTrace::clear()
TraceClear ==
    /\ steps < MaxRecords
    /\ steps' = steps + 1
    /\ last' = [last EXCEPT !.op = "trace.clear", !.arg = <<>>]
    /\ trace' = ExecutionTrace_clear(trace)
    /\ CpuUnchanged
    /\ UNCHANGED <<proto_alu, debugger, asm, twin>>

NextTrace ==
    \/ TraceRecord
    \/ TraceClear

SpecTrace == InitTrace /\ [][NextTrace]_vars

\* Alu::new() with the accumulator set as test_standalone_alu sets it;
\* last.arg is <<the accumulator at the last clock taken in Idle, the
\* instruction of that clock, whether every clock since had that instruction>>
InitProtoAlu ==
    \E a \in AccumulatorInputs :
        /\ memory = Cpu_new.memory
        /\ registers = Cpu_new.registers
        /\ control = Cpu_new.control
        /\ alu = Cpu_new.alu
        /\ cycle_count = Cpu_new.cycle_count
        /\ proto_cpu = ProtoCpu_new
        /\ proto_alu = [ProtoAlu_new EXCEPT !.accumulator = a]
        /\ asm = Assembler_new
        /\ twin = NoTwin
        /\ debugger = Debugger_new
        /\ trace = ExecutionTrace_new(0)
        /\ last = [op |-> "new", arg |-> <<>>, pc |-> Wd(0), inst |-> Wd(0)]
        /\ steps = 0

\* the record of a clock call with instruction
ProtoAluClocked(instruction) ==
    /\ last.op # "proto_alu.abort"
    /\ steps < MaxClocks
    /\ steps' = steps + 1
    /\ last' = [last EXCEPT
                    !.op = "proto_alu.clock",
                    !.arg = IF proto_alu.state = "Idle"
                            THEN <<proto_alu.accumulator, instruction, TRUE>>
                            ELSE <<@[1], @[2], @[3] /\ instruction = @[2]>>]
    /\ CpuUnchanged
    /\ UNCHANGED <<debugger, trace, asm, twin>>

\* Alu::clock(instruction) outside Execute, or with an opcode byte that is
\* the discriminant of an AluOp
ProtoAluClock ==
    \E instruction \in ProtoInstructions :
        /\ proto_alu.state # "Execute" \/ ValidOpcode(instruction.opcode)
        /\ ProtoAluClocked(instruction)
        /\ proto_alu' = ProtoAlu_clock(proto_alu, instruction,
                                       IF ValidOpcode(instruction.opcode)
                                       THEN AluOpOf(instruction.opcode) ELSE "Nop")

\* Alu::clock(instruction) in Execute with an opcode byte that is no
\* discriminant of AluOp: the transmute is undefined behaviour, and the match
\* may run any of its arms
ProtoAluClockUndefined ==
    \E instruction \in ProtoInstructions, op \in ProtoOps :
        /\ proto_alu.state = "Execute"
        /\ ~ValidOpcode(instruction.opcode)
        /\ ProtoAluClocked(instruction)
        /\ proto_alu' = ProtoAlu_clock(proto_alu, instruction, op)

\* or the process may end there
ProtoAluAbort ==
    \E instruction \in ProtoInstructions :
        /\ proto_alu.state = "Execute"
        /\ ~ValidOpcode(instruction.opcode)
        /\ last.op # "proto_alu.abort"
        /\ steps < MaxClocks
        /\ last' = [last EXCEPT !.op = "proto_alu.abort"]
        /\ CpuUnchanged
        /\ UNCHANGED <<proto_alu, debugger, trace, asm, twin, steps>>

NextProtoAlu ==
    \/ ProtoAluClock
    \/ ProtoAluClockUndefined
    \/ ProtoAluAbort

SpecProtoAlu == InitProtoAlu /\ [][NextProtoAlu]_vars

\* an operation of the tools, recorded in last
Tool(op, arg) ==
    /\ last' = [op |-> op, arg |-> arg, pc |-> control.program_counter,
                inst |-> Memory_fetch(memory, control.program_counter)]
    /\ UNCHANGED steps

\* Debugger::new(cpu) with the loop loaded into cpu
InitDebug ==
    /\ memory = Cpu_load_program(Cpu_new, DebugProgram).memory
    /\ registers = Cpu_new.registers
    /\ control = Cpu_new.control
    /\ alu = Cpu_new.alu
    /\ cycle_count = Cpu_new.cycle_count
    /\ proto_cpu = ProtoCpu_new
    /\ proto_alu = ProtoAlu_new
    /\ asm = Assembler_new
    /\ twin = NoTwin
    /\ debugger = Debugger_new
    /\ trace = ExecutionTrace_new(0)
    /\ last = [op |-> "new", arg |-> <<>>, pc |-> Wd(0), inst |-> Wd(0)]
    /\ steps = 0

\* Debugger::add_breakpoint(address)
DebuggerAddBreakpoint ==
    \E address \in BreakInputs :
        /\ debugger.status # "running"
        /\ Len(debugger.breakpoints) < MaxBreakpoints
        /\ Tool("debugger.add_breakpoint", <<address>>)
        /\ debugger' = Debugger_add_breakpoint(debugger, address)
        /\ CpuUnchanged
        /\ UNCHANGED <<proto_alu, trace, asm, twin>>

\* Debugger::step
DebuggerStep ==
    /\ debugger.status # "running"
    /\ cycle_count < DebugCycles
    /\ Tool("debugger.step", <<>>)
    /\ Becomes(Cpu_clock(Self))
    /\ UNCHANGED <<proto_alu, debugger, trace, asm, twin>>

\* Debugger::run_until_breakpoint is called
DebuggerRun ==
    /\ debugger.status # "running"
    /\ Tool("debugger.run_until_breakpoint", <<>>)
    /\ debugger' = [debugger EXCEPT !.status = "running", !.clocks = 0]
    /\ CpuUnchanged
    /\ UNCHANGED <<proto_alu, trace, asm, twin>>

\* the loop of run_until_breakpoint with the PC in the breakpoints: return it
DebuggerReturn ==
    /\ debugger.status = "running"
    /\ Contains(debugger.breakpoints, ControlUnit_get_pc(control))
    /\ Tool("debugger.return", <<ControlUnit_get_pc(control)>>)
    /\ debugger' = [debugger EXCEPT !.status = "returned",
                                    !.returned = ControlUnit_get_pc(control)]
    /\ CpuUnchanged
    /\ UNCHANGED <<proto_alu, trace, asm, twin>>

\* the loop of run_until_breakpoint with the PC not in the breakpoints: clock()
DebuggerClock ==
    /\ debugger.status = "running"
    /\ ~Contains(debugger.breakpoints, ControlUnit_get_pc(control))
    /\ cycle_count < DebugCycles
    /\ Tool("debugger.clock", <<>>)
    /\ debugger' = [debugger EXCEPT !.clocks = @ + 1]
    /\ Becomes(Cpu_clock(Self))
    /\ UNCHANGED <<proto_alu, trace, asm, twin>>

NextDebug ==
    \/ DebuggerAddBreakpoint
    \/ DebuggerStep
    \/ DebuggerRun
    \/ DebuggerReturn
    \/ DebuggerClock

SpecDebug == InitDebug /\ [][NextDebug]_vars

\* a running call that has found its breakpoint does return
FairSpecDebug == SpecDebug /\ WF_vars(DebuggerReturn)

\* the control unit on its own: decoding
NextDecode == ControlClockAny

SpecDecode == InitDecode /\ [][NextDecode]_vars

(***************************************************************************)
(* Properties                                                              *)
(***************************************************************************)
pc == control.program_counter

reg(i) == registers.registers[i]

\* w with its two low bits cleared
Align4(w) == W(Hi(w), Lo(w) - (Lo(w) % 4))

\* w with bit 0 cleared
Align2(w) == W(Hi(w), Lo(w) - (Lo(w) % 2))

\* the value a read port returns for register i
ReadOf(i) == IF i = 0 THEN Wd(0) ELSE reg(i)

\* C1: the storage slot of register 0 is 0, a read port addressed at register 0
\* shows 0, and a read of register 0 on either port returns 0, in every state
\* reached by register-file clocks (write-enabled ones at address 0 included),
\* Cpu clocks, resets and program loads.
C1_X0Invariant ==
    /\ reg(0) = Wd(0)
    /\ registers.addr_a = 0 => registers.read_data_a = Wd(0)
    /\ registers.addr_b = 0 => registers.read_data_b = Wd(0)
    /\ LET r == RegisterFile_clock(registers, 0, Wd(0), FALSE, 0)
       IN  r.read_data_a = Wd(0) /\ r.read_data_b = Wd(0)

\* a write-enabled clock addressed register 0 with data 999 and port A reads 0
C1_Witness ==
    /\ last.op = "registers.clock"
    /\ registers.addr_a = 0
    /\ registers.write_enable_a
    /\ registers.write_data_a = Wd(999)
    /\ registers.read_data_a = Wd(0)
    /\ reg(0) = Wd(0)

\* C2 (as claimed): reset() leaves every memory word as it was.
C2_ResetPreservesMemory ==
    [][last'.op = "reset" => memory'.data = memory.data]_vars

\* C3 (as claimed): the demonstration (load_program, reset, run_cycles(5)) ends
\* with x1 = 42, x2 = 8, x3 = 50, x4 = 34, x5 = 8 and cycle_count = 5.
C3_EndToEnd ==
    last.op = "test_risc_v_instructions" =>
        /\ reg(1) = Wd(42)
        /\ reg(2) = Wd(8)
        /\ reg(3) = Wd(50)
        /\ reg(4) = Wd(34)
        /\ reg(5) = Wd(8)
        /\ cycle_count = 5

\* C4: reset() from any reachable state gives PC = 0, cycle_count = 0 and all 32
\* registers 0, and a second reset() changes nothing more.
C4_Reset ==
    LET r == Cpu_reset(Self)
    IN  /\ r.control.program_counter = Wd(0)
        /\ r.cycle_count = 0
        /\ \A i \in 0..31 : r.registers.registers[i] = Wd(0)
        /\ Cpu_reset(r) = r
        /\ last.op = "reset" =>
               /\ pc = Wd(0)
               /\ cycle_count = 0
               /\ \A i \in 0..31 : reg(i) = Wd(0)

\* a reset of a Cpu whose PC was not 0 and that had written a register
C4_Witness ==
    /\ last.op = "reset"
    /\ last.pc # Wd(0)
    /\ registers.write_enable_a
    /\ registers.write_data_a # Wd(0)
    /\ pc = Wd(0)
    /\ \A i \in 0..31 : reg(i) = Wd(0)

\* C5: each clock() adds exactly 1 to cycle_count whatever it fetches,
\* run_cycles(n) adds exactly n, and run_cycles(n) right after reset() leaves
\* cycle_count = n.
C5_CycleCounting ==
    [][/\ last'.op = "clock" => cycle_count' = cycle_count + 1
       /\ last'.op = "run_cycles" => cycle_count' = cycle_count + last'.arg[1]
       /\ last.op = "reset" /\ last'.op = "run_cycles" => cycle_count' = last'.arg[1]
      ]_vars

\* run_cycles(MaxRun) that started on a JAL and counted every cycle
C5_Witness ==
    /\ last.op = "run_cycles"
    /\ last.arg = <<MaxRun>>
    /\ opcode(last.inst) = 111
    /\ cycle_count = MaxRun

\* C6: the program counter is a multiple of 4 in every state reached by clock,
\* update_pc, set_pc (any argument) and reset, also when PC + 4 wraps.
C6_PcAligned == Lo(pc) % 4 = 0

\* PC + 4 wrapped from 0xFFFFFFFC to 0
C6_Witness ==
    /\ last.op \in {"clock", "control.update_pc"}
    /\ last.pc = W(65535, 65532)
    /\ pc = Wd(0)

\* C7: update_pc(branch_taken, jump_target) sets PC to jump_target with its two
\* low bits cleared when the decoded signals have jump, or have branch and
\* branch_taken holds; otherwise it sets PC to PC + 4 (mod 2^32).
C7_UpdatePc ==
    [][last'.op = "control.update_pc" =>
         LET sig == control.control_signals
             branch_taken == last'.arg[1]
             jump_target == last'.arg[2]
         IN  IF sig.jump \/ (sig.branch /\ branch_taken)
             THEN pc' = Align4(jump_target)
             ELSE pc' = wrapping_add(pc, Wd(4))
      ]_vars

\* a taken branch to the misaligned target 7 landed on 4
C7_Witness ==
    /\ last.op = "control.update_pc"
    /\ control.control_signals.branch
    /\ last.arg = <<TRUE, Wd(7)>>
    /\ pc = Wd(4)

\* the registers after a cycle that links p + 4 into register d
Linked(d, p) ==
    /\ d # 0 => registers'.registers[d] = wrapping_add(p, Wd(4))
    /\ \A i \in 0..31 : i # d \/ d = 0 => registers'.registers[i] = reg(i)

\* C8 (as claimed): a clock() that fetches a JAL at p with immediate i sets PC to
\* p + i (mod 2^32) and writes p + 4 into rd (nothing when rd = 0).
C8_JalOriginal ==
    [][last'.op = "clock" /\ opcode(last'.inst) = 111 =>
         /\ pc' = wrapping_add(last'.pc, FromI32(imm_j(last'.inst)))
         /\ Linked(rd(last'.inst), last'.pc)
      ]_vars

\* C8 (amended): a clock() that fetches a JAL at p with immediate i sets PC to
\* p + i (mod 2^32) with its two low bits cleared, which is p + i when i is a
\* multiple of 4, and writes p + 4 into rd (nothing when rd = 0).
C8_Jal ==
    [][last'.op = "clock" /\ opcode(last'.inst) = 111 =>
         LET target == wrapping_add(last'.pc, FromI32(imm_j(last'.inst)))
         IN  /\ pc' = Align4(target)
             /\ imm_j(last'.inst) % 4 = 0 => pc' = target
             /\ Linked(rd(last'.inst), last'.pc)
      ]_vars

\* JAL x3, 6 at 16 linked 20 into x3 and went to 20, not 22
C8_Witness ==
    /\ last.op = "clock"
    /\ opcode(last.inst) = 111
    /\ imm_j(last.inst) = 6
    /\ last.pc = Wd(16)
    /\ pc = Wd(20)
    /\ reg(3) = Wd(20)

\* C9 (as claimed): a clock() that fetches a JALR at p sets PC to rs1 + imm_i
\* with bit 0 cleared, rs1 being the value before this cycle's write-back, and
\* writes p + 4 into rd.
C9_JalrOriginal ==
    [][last'.op = "clock" /\ opcode(last'.inst) = 103 =>
         /\ pc' = Align2(wrapping_add(ReadOf(rs1(last'.inst)),
                                      FromI32(imm_i(last'.inst))))
         /\ registers'.registers[rd(last'.inst)] = wrapping_add(last'.pc, Wd(4))
      ]_vars

\* C9 (amended): a clock() that fetches a JALR at p sets PC to rs1 + imm_i with
\* its two low bits cleared, rs1 being the value before this cycle's
\* write-back, and writes p + 4 into rd unless rd = 0.
C9_Jalr ==
    [][last'.op = "clock" /\ opcode(last'.inst) = 103 =>
         /\ pc' = Align4(wrapping_add(ReadOf(rs1(last'.inst)),
                                      FromI32(imm_i(last'.inst))))
         /\ Linked(rd(last'.inst), last'.pc)
      ]_vars

\* JALR x1, x1, 5 at 8 with x1 = 4: the target came from the old x1
C9_Witness ==
    /\ last.op = "clock"
    /\ opcode(last.inst) = 103
    /\ rd(last.inst) = 1
    /\ rs1(last.inst) = 1
    /\ last.pc = Wd(8)
    /\ pc = Wd(8)
    /\ reg(1) = Wd(12)

\* C10: a write-enabled Memory clock with the halfword mask at an odd address,
\* or with the word mask at an address that is not a multiple of 4, leaves
\* every memory word unchanged.
C10_AlignmentDrop ==
    [][(/\ last'.op = "memory.clock"
        /\ last'.arg[2]
        /\ \/ memory.write_mask = 3 /\ Lo(last'.arg[3]) % 2 = 1
           \/ memory.write_mask = 15 /\ Lo(last'.arg[3]) % 4 # 0)
       => memory'.data = memory.data
      ]_vars

\* a halfword write at address 1 of a loaded memory was dropped
C10_Witness ==
    /\ last.op = "memory.clock"
    /\ memory.write_enable
    /\ memory.write_mask = 3
    /\ memory.address = Wd(1)
    /\ memory.data[0] = i_type(19, 1, 0, 0, 42)

\* byte k (0 = least significant) of word w
ByteOf(w, k) ==
    IF k < 2 THEN (Lo(w) \div (256 ^ k)) % 256 ELSE (Hi(w) \div (256 ^ (k - 2))) % 256

\* bits 11..2 of byte address a
WordIndex(a) == (Lo(a) \div 4) % 1024

\* C11: a write-enabled Memory clock at byte address a with the byte mask, or
\* with the halfword mask and a even, or with the word mask and a a multiple
\* of 4, sets the selected bytes (1 at offset a mod 4, 2 from offset a mod 4,
\* or all 4) of word (a >> 2) mod 1024 to the low bytes of the data, and leaves
\* every other byte of that word and every other word as it was.
C11_MaskedWrites ==
    [][(/\ last'.op = "memory.clock"
        /\ last'.arg[2]
        /\ \/ memory.write_mask = 1
           \/ memory.write_mask = 3 /\ Lo(last'.arg[3]) % 2 = 0
           \/ memory.write_mask = 15 /\ Lo(last'.arg[3]) % 4 = 0)
       => LET a == last'.arg[3]
              d == last'.arg[4]
              o == Lo(a) % 4
              n == CASE memory.write_mask = 1 -> 1
                     [] memory.write_mask = 3 -> 2
                     [] OTHER -> 4
          IN  /\ \A b \in 0..3 :
                     ByteOf(memory'.data[WordIndex(a)], b) =
                         IF b >= o /\ b < o + n
                         THEN ByteOf(d, b - o)
                         ELSE ByteOf(memory.data[WordIndex(a)], b)
              /\ \A i \in (0..1023) \ {WordIndex(a)} :
                     memory'.data[i] = memory.data[i]
      ]_vars

\* a byte write at offset 3 of an aliased address into a loaded word 0
C11_Witness ==
    /\ last.op = "memory.clock"
    /\ last.arg[2]
    /\ memory.write_mask = 1
    /\ last.arg[3] = Wd(4099)
    /\ ByteOf(memory.data[0], 3) = 239
    /\ ByteOf(memory.data[0], 0) # 0

\* C12: a fetch at byte address a returns word (a >> 2) mod 1024, a read-enabled
\* Memory clock latches that word, an aligned word write replaces that word;
\* the index is always inside the array, and a and a + 4096k fetch the same
\* word for every input address a and k = 1, 2, 2^20 - 1.
C12_AddressWraparound ==
    [][/\ last'.op = "memory.fetch"
          => /\ last'.arg[2] = memory.data[WordIndex(last'.arg[1])]
             /\ WordAddr(last'.arg[1]) \in DOMAIN memory.data
       /\ (last'.op = "memory.clock" /\ last'.arg[1])
          => memory'.read_data = memory'.data[WordIndex(last'.arg[3])]
       /\ (/\ last'.op = "memory.clock"
           /\ last'.arg[2]
           /\ memory.write_mask = 15
           /\ Lo(last'.arg[3]) % 4 = 0)
          => memory'.data[WordIndex(last'.arg[3])] = last'.arg[4]
       /\ \A a \in AddrInputs : \A off \in {Wd(4096), Wd(8192), W(65535, 61440)} :
              Memory_fetch(memory', wrapping_add(a, off)) = Memory_fetch(memory', a)
      ]_vars

\* a word written and read back through address 4100 is the word at address 4
C12_Witness ==
    /\ last.op = "memory.clock"
    /\ last.arg = <<TRUE, TRUE, Wd(4100), W(57005, 48879)>>
    /\ memory.read_data = W(57005, 48879)
    /\ Memory_fetch(memory, Wd(4)) = W(57005, 48879)
    /\ Memory_fetch(memory, Wd(0)) # W(57005, 48879)

\* entry e = <<addr, data>> is 4-byte aligned and inside the memory
InRangeEntry(e) == Hi(e[1]) = 0 /\ Lo(e[1]) < 4096 /\ Lo(e[1]) % 4 = 0

\* entry e is 4-byte aligned and at a byte address >= 4096
BeyondEntry(e) == Lo(e[1]) % 4 = 0 /\ (Hi(e[1]) # 0 \/ Lo(e[1]) >= 4096)

\* the positions of the aligned in-range entries of program p for word k
EntriesFor(p, k) == {j \in 1..Len(p) : InRangeEntry(p[j]) /\ Lo(p[j][1]) = 4 * k}

C14_LoadWraps ==
    [][last'.op = "load_program"
       => LET p == last'.arg
          IN  \A j \in 1..Len(p) :
                  (/\ BeyondEntry(p[j])
                   /\ \A i \in (j + 1)..Len(p) :
                          Lo(p[i][1]) % 4 = 0 => WordIndex(p[i][1]) # WordIndex(p[j][1]))
                  => memory'.data[WordIndex(p[j][1])] = p[j][2]
      ]_vars

\* C15: a clock that executes a store (SB, SH, SW by funct3 0, 1, 2) whose
\* bytes lie inside one word sets the 1, 2 or 4 bytes from the effective
\* address rs1 + S-immediate to the low bytes of rs2 and leaves the other bytes
\* of the addressed word as they were. (Stated for the stores whose I- and
\* S-immediate fields read the same.)
C15_StoreWidth ==
    [][(/\ last'.op = "clock"
        /\ opcode(last'.inst) = 35
        /\ funct3(last'.inst) \in {0, 1, 2}
        /\ imm_s(last'.inst) = imm_i(last'.inst))
       => LET a == wrapping_add(ReadOf(rs1(last'.inst)), FromI32(imm_s(last'.inst)))
              d == ReadOf(rs2(last'.inst))
              o == Lo(a) % 4
              n == 2 ^ funct3(last'.inst)
          IN  o + n <= 4
              => \A b \in 0..3 :
                     ByteOf(memory'.data[WordIndex(a)], b) =
                         IF b >= o /\ b < o + n
                         THEN ByteOf(d, b - o)
                         ELSE ByteOf(memory.data[WordIndex(a)], b)
      ]_vars

\* the side-effect signals that are set in the decoded signals
EffectsSet ==
    {f \in {"mem_read", "mem_write", "mem_to_reg", "reg_write", "branch", "jump"} :
        control.control_signals[f]}

\* the side-effect signals the decode table gives for opcode op
EffectsOf(op) ==
    CASE op = 3 -> {"mem_read", "mem_to_reg", "reg_write"}
      [] op = 35 -> {"mem_write"}
      [] op = 99 -> {"branch"}
      [] op \in {111, 103} -> {"jump", "reg_write"}
      [] op \in {55, 23, 19, 51} -> {"reg_write"}
      [] OTHER -> {}

\* C16: after the control unit is clocked with any instruction word, the
\* side-effect signals that are set are exactly those the table gives for its
\* opcode; and in every state mem_read and mem_write are not both set, branch
\* and jump are not both set, and mem_to_reg implies mem_read.
C16_DecodeTable ==
    /\ last.op = "control.clock" => EffectsSet = EffectsOf(opcode(last.arg[1]))
    /\ ~(control.control_signals.mem_read /\ control.control_signals.mem_write)
    /\ ~(control.control_signals.branch /\ control.control_signals.jump)
    /\ control.control_signals.mem_to_reg => control.control_signals.mem_read

\* a store word with nonzero funct3 and funct7 has been decoded
C16_Witness ==
    /\ last.op = "control.clock"
    /\ opcode(last.arg[1]) = 35
    /\ funct3(last.arg[1]) = 7
    /\ funct7(last.arg[1]) = 32
    /\ EffectsSet = {"mem_write"}

\* C17: after the control unit is clocked with an OP or OP-IMM word, whatever
\* its funct3 and funct7, alu_op is Add for funct3 000 (Sub when the opcode is
\* OP and funct7 bit 5 is set), Sll for 001, Slt for 010, Sltu for 011, Xor for
\* 100, Srl for 101 (Sra when funct7 bit 5 is set), Or for 110, And for 111.
C17_AluOpSelection ==
    (last.op = "control.clock" /\ opcode(last.arg[1]) \in {19, 51})
    => LET f3 == funct3(last.arg[1])
           bit5 == (funct7(last.arg[1]) \div 32) % 2 = 1
       IN  control.control_signals.alu_op =
               CASE f3 = 0 -> IF opcode(last.arg[1]) = 51 /\ bit5 THEN "Sub" ELSE "Add"
                 [] f3 = 1 -> "Sll"
                 [] f3 = 2 -> "Slt"
                 [] f3 = 3 -> "Sltu"
                 [] f3 = 4 -> "Xor"
                 [] f3 = 5 -> IF bit5 THEN "Sra" ELSE "Srl"
                 [] f3 = 6 -> "Or"
                 [] f3 = 7 -> "And"

\* C18: a clock that fetches a word whose opcode is SYSTEM or none of LUI,
\* AUIPC, JAL, JALR, branch, load, store, OP-IMM and OP leaves every register
\* and every memory word as it was, moves PC to the fetch address plus 4 and
\* adds 1 to cycle_count.
C18_UnrecognizedIsNop ==
    [][(/\ last'.op = "clock"
        /\ opcode(last'.inst) \notin {55, 23, 111, 103, 99, 3, 35, 19, 51})
       => /\ registers'.registers = registers.registers
          /\ memory'.data = memory.data
          /\ control'.program_counter = wrapping_add(last'.pc, Wd(4))
          /\ cycle_count' = cycle_count + 1
      ]_vars

\* ECALL fetched at 16 from a loaded memory
C18_Witness ==
    /\ last.op = "clock"
    /\ opcode(last.inst) = 115
    /\ last.pc = Wd(16)
    /\ memory.data[0] # Wd(0)
    /\ pc = Wd(20)
    /\ cycle_count = 1

\* bit i (0 = least significant) of word w
Bit(w, i) == IF i < 16 THEN (Lo(w) \div (2 ^ i)) % 2 ELSE (Hi(w) \div (2 ^ (i - 16))) % 2

RECURSIVE Carry(_, _, _)
\* the carry into bit i of the binary addition of a and b
Carry(a, b, i) ==
    IF i = 0 THEN 0 ELSE (Bit(a, i - 1) + Bit(b, i - 1) + Carry(a, b, i - 1)) \div 2

\* r is a + b modulo 2^32
IsSum(r, a, b) == \A i \in 0..31 : Bit(r, i) = (Bit(a, i) + Bit(b, i) + Carry(a, b, i)) % 2

\* a is below b as unsigned numbers: at the highest bit where they differ, a has 0
BelowU(a, b) ==
    \E i \in 0..31 : Bit(a, i) < Bit(b, i) /\ \A j \in (i + 1)..31 : Bit(a, j) = Bit(b, j)

\* a is below b as two's-complement numbers
BelowS(a, b) == IF Bit(a, 31) # Bit(b, 31) THEN Bit(a, 31) = 1 ELSE BelowU(a, b)

\* the ALU table: <<op, a, b, result>>
AluTable ==
    {<<"Add", Wd(10), Wd(20), Wd(30)>>, <<"Sub", Wd(30), Wd(15), Wd(15)>>,
     <<"And", Wd(255), Wd(15), Wd(15)>>, <<"Or", Wd(240), Wd(15), Wd(255)>>,
     <<"Xor", Wd(255), Wd(170), Wd(85)>>, <<"Sll", Wd(1), Wd(4), Wd(16)>>,
     <<"Srl", Wd(16), Wd(2), Wd(4)>>, <<"Sra", W(65535, 65520), Wd(2), W(65535, 65532)>>,
     <<"Slt", Wd(5), Wd(10), Wd(1)>>, <<"Sltu", Wd(5), Wd(10), Wd(1)>>}

\* C19: after execute(op, a, b) the result is: for Add, a + b modulo 2^32; for
\* Sub, the word that added to b gives a modulo 2^32; for And, Or, Xor, the
\* bitwise operation; for Slt (Sltu), 1 when a is below b as signed (unsigned)
\* numbers and 0 otherwise; for PassA, a; for PassB, b; and every row of the
\* ALU table has the result the table gives.
C19_AluResults ==
    last.op = "alu.execute"
    => LET op == last.arg[1]
           a == last.arg[2]
           b == last.arg[3]
           r == alu.result
       IN  /\ op = "Add" => IsSum(r, a, b)
           /\ op = "Sub" => IsSum(a, r, b)
           /\ op = "And" => \A i \in 0..31 : Bit(r, i) = Bit(a, i) * Bit(b, i)
           /\ op = "Or" => \A i \in 0..31 : Bit(r, i) = 1 <=> (Bit(a, i) = 1 \/ Bit(b, i) = 1)
           /\ op = "Xor" => \A i \in 0..31 : Bit(r, i) = (Bit(a, i) + Bit(b, i)) % 2
           /\ op = "Slt" => r = IF BelowS(a, b) THEN Wd(1) ELSE Wd(0)
           /\ op = "Sltu" => r = IF BelowU(a, b) THEN Wd(1) ELSE Wd(0)
           /\ op = "PassA" => r = a
           /\ op = "PassB" => r = b
           /\ \A t \in AluTable : <<op, a, b>> = <<t[1], t[2], t[3]>> => r = t[4]
           /\ Hi(r) \in 0..65535 /\ Lo(r) \in 0..65535

\* Slt of -1 and 1 is 1, where the unsigned comparison gives 0
C19_Witness ==
    /\ last.op = "alu.execute"
    /\ last.arg = <<"Slt", W(65535, 65535), Wd(1)>>
    /\ alu.result = Wd(1)

\* C20: after execute of Sll, Srl or Sra on a and b the result is that of the
\* same operation on a and b mod 32; with s = b mod 32, bit i of the result is
\* bit i - s of a (0 below s) for Sll, and bit i + s of a for Srl and Sra, the
\* bits above 31 - s being 0 for Srl and bit 31 of a for Sra.
C20_ShiftSemantics ==
    (last.op = "alu.execute" /\ last.arg[1] \in {"Sll", "Srl", "Sra"})
    => LET op == last.arg[1]
           a == last.arg[2]
           s == Lo(last.arg[3]) % 32
           r == alu.result
       IN  /\ r = AluValue(op, a, Wd(s))
           /\ \A i \in 0..31 :
                  Bit(r, i) = CASE op = "Sll" -> IF i >= s THEN Bit(a, i - s) ELSE 0
                                [] op = "Srl" -> IF i + s <= 31 THEN Bit(a, i + s) ELSE 0
                                [] op = "Sra" -> IF i + s <= 31 THEN Bit(a, i + s)
                                                 ELSE Bit(a, 31)

\* Sra of 0x80000000 by 33 shifts by 1 and copies the sign bit: 0xC0000000
C20_Witness ==
    /\ last.op = "alu.execute"
    /\ last.arg = <<"Sra", W(32768, 0), Wd(33)>>
    /\ alu.result = W(49152, 0)

\* C21: after an execute_alu call of the prototype the zero flag is (result
\* = 0) and the negative flag is bit 31 of the result; after an execute call
\* of the RV32I ALU the zero flag is (result = 0) and the stored result is the
\* value returned; whatever calls came before.
C21_AluFlags ==
    /\ last.op = "proto.execute_alu"
       => /\ proto_cpu.alu_flags.zero = (proto_cpu.alu_result = Wd(0))
          /\ proto_cpu.alu_flags.negative = (Bit(proto_cpu.alu_result, 31) = 1)
    /\ (last.op = "alu.execute" /\ Len(last.arg) = 4)
       => /\ alu.zero = (alu.result = Wd(0))
          /\ alu.result = last.arg[4]

\* a second or later call whose result is negative and not zero
C21_Witness ==
    /\ last.op = "proto.execute_alu"
    /\ steps >= 2
    /\ last.arg = <<"Add", W(32767, 65535), Wd(1)>>
    /\ proto_cpu.alu_result = W(32768, 0)
    /\ proto_cpu.alu_flags.negative
    /\ ~proto_cpu.alu_flags.zero

\* C22: Add sets carry exactly when a + b reaches 2^32 and overflow exactly
\* when a and b have one sign and the result the other; Sub sets carry exactly
\* when a is below b unsigned and overflow exactly when a and b differ in sign
\* and the result's sign differs from a's; every other operation leaves carry
\* and overflow false.
C22_CarryOverflow ==
    last.op = "proto.execute_alu"
    => LET op == last.arg[1]
           a == last.arg[2]
           b == last.arg[3]
           r == proto_cpu.alu_result
           f == proto_cpu.alu_flags
       IN  CASE op = "Add" ->
                  /\ f.carry = (Carry(a, b, 32) = 1)
                  /\ f.overflow = (Bit(a, 31) = Bit(b, 31) /\ Bit(r, 31) # Bit(a, 31))
             [] op = "Sub" ->
                  /\ f.carry = BelowU(a, b)
                  /\ f.overflow = (Bit(a, 31) # Bit(b, 31) /\ Bit(r, 31) # Bit(a, 31))
             [] OTHER -> ~f.carry /\ ~f.overflow

\* 0x80000000 - 1: no borrow, signed overflow; after an earlier call
C22_Witness ==
    /\ last.op = "proto.execute_alu"
    /\ steps >= 2
    /\ last.arg = <<"Sub", W(32768, 0), Wd(1)>>
    /\ proto_cpu.alu_result = W(32767, 65535)
    /\ proto_cpu.alu_flags.overflow
    /\ ~proto_cpu.alu_flags.carry

\* the branch condition of funct3 f on register values a and b
BranchCondition(f, a, b) ==
    CASE f = 0 -> a = b
      [] f = 1 -> a # b
      [] f = 4 -> BelowS(a, b)
      [] f = 5 -> ~BelowS(a, b)
      [] f = 6 -> BelowU(a, b)
      [] f = 7 -> ~BelowU(a, b)
      [] OTHER -> FALSE

\* a cycle that changes no register and no memory word
NoRegisterOrMemoryChange ==
    /\ registers'.registers = registers.registers
    /\ memory'.data = memory.data

\* C23 (as claimed): a clock() that fetches a Branch at p takes it exactly
\* when BEQ rs1 = rs2, BNE rs1 # rs2, BLT rs1 < rs2 signed, BGE rs1 >= rs2
\* signed, BLTU rs1 < rs2 unsigned, BGEU rs1 >= rs2 unsigned (funct3 2 and 3
\* never); taken, the PC becomes p + imm_b, not taken, p + 4; no register and
\* no memory word changes.
C23_BranchOriginal ==
    [][last'.op = "clock" /\ opcode(last'.inst) = 99 =>
         LET taken == BranchCondition(funct3(last'.inst), ReadOf(rs1(last'.inst)),
                                      ReadOf(rs2(last'.inst)))
         IN  /\ pc' = IF taken THEN wrapping_add(last'.pc, FromI32(imm_b(last'.inst)))
                       ELSE wrapping_add(last'.pc, Wd(4))
             /\ NoRegisterOrMemoryChange
      ]_vars

\* C23 (amended): as claimed, except that a taken branch sets the PC to
\* p + imm_b with its two low bits cleared, which is p + imm_b when p + imm_b
\* is a multiple of 4.
C23_Branch ==
    [][last'.op = "clock" /\ opcode(last'.inst) = 99 =>
         LET taken == BranchCondition(funct3(last'.inst), ReadOf(rs1(last'.inst)),
                                      ReadOf(rs2(last'.inst)))
             target == wrapping_add(last'.pc, FromI32(imm_b(last'.inst)))
         IN  /\ pc' = IF taken THEN Align4(target) ELSE wrapping_add(last'.pc, Wd(4))
             /\ taken /\ Lo(target) % 4 = 0 => pc' = target
             /\ NoRegisterOrMemoryChange
      ]_vars

\* BGEU x1, x2, 6 at 16 with x1 = 0xFFFFFFFF and x2 = 1 was taken, to 20 and
\* not to 22
C23_Witness ==
    /\ last.op = "clock"
    /\ last.inst = b_type(99, 7, 1, 2, 6)
    /\ last.pc = Wd(16)
    /\ reg(1) = W(65535, 65535)
    /\ reg(2) = Wd(1)
    /\ pc = Wd(20)

\* C24: in a cycle whose signals have reg_write, the value written to rd is the
\* memory read data when mem_to_reg, else pc + 4 when jump, else the ALU
\* result (register 0 keeps 0), and no other register changes; in a cycle
\* without reg_write no register changes.
C24_WriteBack ==
    [][last'.op = "clock" =>
         LET ctrl == control'.control_signals
             d == rd(last'.inst)
             value == IF ctrl.mem_to_reg THEN memory'.read_data
                      ELSE IF ctrl.jump THEN wrapping_add(last'.pc, Wd(4))
                      ELSE alu'.result
         IN  IF ctrl.reg_write
             THEN /\ d # 0 => registers'.registers[d] = value
                  /\ \A i \in 0..31 : i # d \/ d = 0 => registers'.registers[i] = reg(i)
             ELSE registers'.registers = registers.registers
      ]_vars

\* JALR x3, x1, 8 at 16 with x1 = 32: x3 holds 20, not the ALU's 40
C24_Witness ==
    /\ last.op = "clock"
    /\ last.pc = ExecPc
    /\ last.inst = i_type(103, 3, 0, 1, 8)
    /\ alu.result = Wd(40)
    /\ reg(3) = Wd(20)

\* C25: a clock() that fetches LUI rd writes imm_u (bits 31:12 of the word in
\* place, the low 12 bits zero) into rd, and one that fetches AUIPC rd at p
\* writes p + imm_u into rd.
C25_UpperImmediate ==
    [][(/\ last'.op = "clock"
        /\ opcode(last'.inst) \in {55, 23}
        /\ rd(last'.inst) # 0)
       => registers'.registers[rd(last'.inst)]
            = IF opcode(last'.inst) = 55 THEN FromI32(imm_u(last'.inst))
              ELSE wrapping_add(last'.pc, FromI32(imm_u(last'.inst)))
      ]_vars

\* C26: a clock() that fetches a Store writes the value of rs2 at the
\* effective address rs1 + imm_s; stated for SW at an effective address that is
\* a multiple of 4, where the whole word at that address becomes rs2's value.
C26_StoreAddress ==
    [][(/\ last'.op = "clock"
        /\ opcode(last'.inst) = 35
        /\ funct3(last'.inst) = 2
        /\ Lo(wrapping_add(ReadOf(rs1(last'.inst)), FromI32(imm_s(last'.inst)))) % 4 = 0)
       => memory'.data[WordIndex(wrapping_add(ReadOf(rs1(last'.inst)),
                                              FromI32(imm_s(last'.inst))))]
            = ReadOf(rs2(last'.inst))
      ]_vars

\* C27: in the run of examples/fibonacci.rs (load_program, reset,
\* run_cycles(100)) the first three cycles seed x1 = 1, x2 = 1 and x3 = 10, the
\* branch at 28 goes back to 12 while x3 is not 0, and when the 100 cycles
\* are done x3 is 0 and x2 is 144.
C27_Fibonacci ==
    /\ (last.op = "clock" /\ cycle_count = 3)
       => reg(1) = Wd(1) /\ reg(2) = Wd(1) /\ reg(3) = Wd(10)
    /\ (last.op = "clock" /\ last.pc = Wd(28) /\ reg(3) # Wd(0)) => pc = Wd(12)
    /\ (last.op = "clock" /\ cycle_count = FibonacciCycles)
       => reg(3) = Wd(0) /\ reg(2) = Wd(144)

\* C28: a cycle works on what the cycle before it left: it fetches the word
\* that memory holds at the PC, both as the previous cycle left them; an ADD
\* adds, and a BNE compares, the register values the previous cycle left;
\* an aligned LW loads the word the previous cycle left at its address.
C28_CycleOrdering ==
    [][last'.op = "clock" =>
         LET inst == memory.data[WordIndex(pc)]
             a == ReadOf(rs1(inst))
             b == ReadOf(rs2(inst))
             addr == wrapping_add(a, FromI32(imm_i(inst)))
         IN  /\ control'.current_instruction = inst
             /\ (opcode(inst) = 51 /\ funct3(inst) = 0 /\ funct7(inst) = 0)
                => IsSum(alu'.result, a, b)
             /\ (opcode(inst) = 99 /\ funct3(inst) = 1 /\ imm_b(inst) = 8)
                => (pc' = wrapping_add(pc, Wd(8))) = (a # b)
             /\ (opcode(inst) = 3 /\ funct3(inst) = 2 /\ Lo(addr) % 4 = 0 /\ rd(inst) # 0)
                => registers'.registers[rd(inst)] = memory.data[WordIndex(addr)]
      ]_vars

\* SW x4, 4(x1) at 16 with x1 = 16 stored x4, the word of ADDI x3, x0, 7, at
\* 20; the second cycle fetched it there and executed it
C28_Witness ==
    /\ last.op = "clock"
    /\ cycle_count = 2
    /\ last.pc = Wd(20)
    /\ reg(1) = Wd(16)
    /\ reg(4) = i_type(19, 3, 0, 0, 7)
    /\ control.current_instruction = reg(4)
    /\ reg(3) = Wd(7)

\* C29: a clock() changes the value of at most one register, the one named by
\* the rd field of the fetched instruction, and of at most one memory word.
C29_OneWritePort ==
    [][last'.op = "clock" =>
         /\ \A i \in 0..31 :
                registers'.registers[i] # reg(i) => i = rd(last'.inst)
         /\ Cardinality({i \in 0..(MemWords - 1) : memory'.data[i] # memory.data[i]}) <= 1
      ]_vars

\* SW x4, 4(x1) at 16 with x1 = 0 changed the word at 4 and not its neighbours
C29_Witness ==
    /\ last.op = "clock"
    /\ last.pc = ExecPc
    /\ cycle_count = 1
    /\ last.inst = s_type(35, 2, 1, 4, 4)
    /\ reg(1) = Wd(0)
    /\ memory.data[1] = W(57005, 48879)
    /\ memory.data[0] = Wd(0)
    /\ memory.data[2] = Wd(0)

\* C30: a RegisterFile clock with write enable false, or with write address
\* 0, changes no slot; one with write enable true and an address r in 1..31
\* changes slot r to the data and no other slot, and the read data of port A
\* after the same call is that data.
C30_WriteGuard ==
    [][last'.op = "registers.clock" =>
         LET a == last'.arg[1]
             d == last'.arg[2]
             en == last'.arg[3]
         IN  /\ (~en \/ a = 0) => registers'.registers = registers.registers
             /\ (en /\ a \in 1..31)
                => /\ registers'.registers[a] = d
                   /\ \A i \in 0..31 : i # a => registers'.registers[i] = reg(i)
                   /\ registers'.read_data_a = d
      ]_vars

\* register 31 written after register 1, which keeps its value
C30_Witness ==
    /\ last.op = "registers.clock"
    /\ last.arg = <<31, W(65535, 65535), TRUE, 1>>
    /\ steps = 3
    /\ reg(31) = W(65535, 65535)
    /\ reg(1) = Wd(999)
    /\ registers.read_data_a = W(65535, 65535)
    /\ registers.read_data_b = Wd(999)

\* C31: clock() completes without panic for every instruction word, register
\* values and write mask: every memory index it uses is in 0..1023, every
\* register index in 0..31 and every shift amount below 32.
C31_Totality ==
    last.op \in {"clock", "clock.panic"}
    => /\ last.op = "clock"
       /\ \A x \in last.arg : InRange(x)

\* a byte store with rs1 = 0xFFFFFFFF and immediate -1: register 31, the last
\* memory word, a write shift of 16
C31_Witness ==
    /\ last.op = "clock"
    /\ opcode(last.inst) = 35
    /\ memory.write_mask = 1
    /\ <<"register", 31>> \in last.arg
    /\ <<"memory", 1023>> \in last.arg
    /\ <<"shift", 16>> \in last.arg
    /\ memory.data[1023] # Wd(0)

\* C32: run_until_breakpoint tests the PC after each clock(): called with the
\* PC already at a breakpoint it makes at least one clock() before it returns,
\* and what it returns is the PC after a clock().
C32_BreakAfterClock ==
    last.op = "debugger.return"
    => debugger.clocks >= 1 /\ debugger.returned = pc

\* C38: run_until_breakpoint returns only a value that is in the breakpoint
\* set and is the PC; it never returns while no breakpoint is a multiple of 4
\* (the empty set included); and once the PC of a running call is a
\* breakpoint the call returns.
C38_RunUntilBreakpoint ==
    /\ [](last.op = "debugger.return"
          => Contains(debugger.breakpoints, debugger.returned) /\ debugger.returned = pc)
    /\ []((\A i \in 1..Len(debugger.breakpoints) : Lo(debugger.breakpoints[i]) % 4 # 0)
          => last.op # "debugger.return")
    /\ ((debugger.status = "running" /\ Contains(debugger.breakpoints, pc))
          ~> last.op = "debugger.return")

\* a call with breakpoints 8 and 12 ran from 0 through 4 to 12 and returned 12
C38_Witness ==
    /\ last.op = "debugger.return"
    /\ debugger.breakpoints = <<Wd(8), Wd(12)>>
    /\ debugger.returned = Wd(12)
    /\ debugger.clocks = 2
    /\ pc = Wd(12)

\* C33: assembling the source of the module's example returns Ok with the
\* entries (0, ADDI x1, x0, 42), (4, ADDI x2, x0, 8), (8, ADD x3, x1, x2).
C33_AssemblerExample ==
    (last.op = "assemble" /\ last.arg = ExampleSource)
    => /\ asm.returned[1] = "Ok"
       /\ asm.returned[2] = << <<Wd(0), i_type(19, 1, 0, 0, 42)>>,
                               <<Wd(4), i_type(19, 2, 0, 0, 8)>>,
                               <<Wd(8), r_type(51, 3, 0, 1, 2, 0)>> >>

\* the ALU op a mnemonic of OP or OP-IMM names
OperationNamed(mnemonic) ==
    CASE mnemonic \in {"add", "addi"} -> "Add"
      [] mnemonic = "sub" -> "Sub"
      [] mnemonic \in {"sll", "slli"} -> "Sll"
      [] mnemonic \in {"slt", "slti"} -> "Slt"
      [] mnemonic \in {"sltu", "sltiu"} -> "Sltu"
      [] mnemonic \in {"xor", "xori"} -> "Xor"
      [] mnemonic \in {"srl", "srli"} -> "Srl"
      [] mnemonic \in {"sra", "srai"} -> "Sra"
      [] mnemonic \in {"or", "ori"} -> "Or"
      [] mnemonic \in {"and", "andi"} -> "And"
      [] OTHER -> "None"

\* C34: for every word of opcode OP or OP-IMM that disassemble accepts, the
\* mnemonic it returns names the ALU op the control unit decodes for the word.
C34_DisasmAgreesWithDecode ==
    (/\ last.op = "disassemble"
     /\ opcode(last.inst) \in {19, 51}
     /\ last.arg[2][1] = "Ok")
    => OperationNamed(last.arg[2][2][1]) = control.control_signals.alu_op

\* SRA x3, x1, x2 reads "sra x3(gp), x1(ra), x2(sp)" and decodes to Sra
C34_Witness ==
    /\ last.op = "disassemble"
    /\ last.inst = r_type(51, 3, 5, 1, 2, 32)
    /\ last.arg[2] = Ok(<<"sra", <<"x", 3, "gp">>, <<"x", 1, "ra">>, <<"x", 2, "sp">>>>)
    /\ control.control_signals.alu_op = "Sra"

\* C35: for each of the formats I, S, B, U and J, the accessor of the format
\* returns the immediate that was encoded into the word; imm_b and imm_j are
\* even for every word; and the branch word of the Fibonacci example has
\* imm_b = -16.
C35_ImmediateRoundTrip ==
    /\ last.op = "encode" => last.arg[4] = last.arg[2]
    /\ (last.op = "encode" /\ last.arg[1] \in {"B", "J"}) => last.arg[4] % 2 = 0
    /\ last.op = "extract" => last.arg[2] % 2 = 0 /\ last.arg[3] % 2 = 0
    /\ (last.op = "extract" /\ last.inst = FibonacciProgram[8][2]) => last.arg[2] = -16

\* the branch word of the Fibonacci example, 0xFE0188E3, gave -16
C35_Witness ==
    /\ last.op = "extract"
    /\ last.inst = FibonacciProgram[8][2]
    /\ last.inst = W(65025, 35043)
    /\ last.arg[2] = -16

\* C36: a clock() that executes a Load leaves memory unchanged and, when rd is
\* not 0, leaves in rd the whole word at index ((rs1 + imm_i) >> 2) mod 1024,
\* whatever funct3 and the low two bits of the address are; the other
\* registers, and all of them when rd = 0, keep their values.
C36_Load ==
    [][(last'.op = "clock" /\ opcode(last'.inst) = 3) =>
         LET inst == last'.inst
             d == rd(inst)
             addr == wrapping_add(ReadOf(rs1(inst)), FromI32(imm_i(inst)))
         IN  /\ memory'.data = memory.data
             /\ d # 0 => registers'.registers[d] = memory.data[WordIndex(addr)]
             /\ \A i \in 0..31 : (i # d \/ d = 0) => registers'.registers[i] = reg(i)
      ]_vars

\* LB x3, 66(x1) with x1 = 0 left the whole word at 64 in x3
C36_Witness ==
    /\ last.op = "clock"
    /\ last.inst = i_type(3, 3, 0, 1, 66)
    /\ reg(1) = Wd(0)
    /\ memory.data[16] = DataWord
    /\ reg(3) = DataWord

\* C37: two Cpu instances that agree on the memory contents, the 32 register
\* values, the PC and the write mask agree on them after every number of
\* clock() calls on both, whatever their latches held at the start.
C37_Determinism ==
    last.op \in {"input", "twin.clock"}
    => /\ twin.memory.data = memory.data
       /\ twin.memory.write_mask = memory.write_mask
       /\ twin.registers.registers = registers.registers
       /\ twin.control.program_counter = control.program_counter

\* a store, SW x4, 4(x1), ran on both instances, the twin having started with
\* every enable and control signal set and all-one data latches: the word
\* stored is in both memories
C37_Witness ==
    /\ last.op = "twin.clock"
    /\ steps = 1
    /\ last.inst = s_type(35, 2, 1, 4, 4)
    /\ last.arg[1] = [word |-> W(65535, 65535), flag |-> TRUE, index |-> 5, alu_op |-> "Sra"]
    /\ \E i \in 0..(MemWords - 1) :
           /\ memory.data[i] = reg(4)
           /\ reg(4) # Wd(0)
           /\ twin.memory.data[i] = reg(4)
           /\ twin.memory.read_data = W(65535, 65535)
           /\ memory.read_data = Wd(0)

\* the last n elements of a sequence, all of them when it has fewer
MostRecent(seq, n) ==
    IF Len(seq) <= n THEN seq ELSE SubSeq(seq, Len(seq) - n + 1, Len(seq))

\* C39: after every sequence of record and clear calls the trace holds at
\* most max_entries entries, they are the most recent of the entries recorded
\* since the last clear, in the order of recording, and a trace of
\* max_entries = 0 is empty.
C39_BoundedFifo ==
    last.op \in {"trace.new", "trace.record", "trace.clear"}
    => /\ Len(ExecutionTrace_get_entries(trace)) <= trace.max_entries
       /\ ExecutionTrace_get_entries(trace) = MostRecent(last.arg, trace.max_entries)
       /\ trace.max_entries = 0 => ExecutionTrace_get_entries(trace) = <<>>

\* a trace of two entries after three records: the first one recorded is gone
C39_Witness ==
    /\ last.op = "trace.record"
    /\ trace.max_entries = 2
    /\ Len(last.arg) = 3
    /\ last.arg[1].cycle = 1 /\ last.arg[2].cycle = 2 /\ last.arg[3].cycle = 3
    /\ Len(trace.entries) = 2
    /\ trace.entries[1].cycle = 2 /\ trace.entries[2].cycle = 3

\* the state that follows a state of the prototype Alu
NextPhase(state) ==
    CASE state = "Idle" -> "Fetch"
      [] state = "Fetch" -> "Execute"
      [] state = "Execute" -> "WriteBack"
      [] state = "WriteBack" -> "Idle"

\* C40: every clock call of the prototype Alu moves the state one step along
\* Idle, Fetch, Execute, WriteBack, Idle; the result and the flags change on
\* the clock taken in Execute only, the accumulator on the clock taken in
\* WriteBack only, and to the result; four clocks from Idle with one
\* instruction leave the state Idle and the accumulator at the instruction's
\* operation on the accumulator of before and the address.
C40_PhaseMachine ==
    /\ [][last'.op = "proto_alu.clock" =>
            /\ proto_alu'.state = NextPhase(proto_alu.state)
            /\ proto_alu.state # "Execute"
               => proto_alu'.result = proto_alu.result /\ proto_alu'.flags = proto_alu.flags
            /\ proto_alu.state # "WriteBack"
               => proto_alu'.accumulator = proto_alu.accumulator
            /\ proto_alu.state = "WriteBack"
               => proto_alu'.accumulator = proto_alu.result
         ]_vars
    /\ []((/\ last.op = "proto_alu.clock"
           /\ proto_alu.state = "Idle"
           /\ last.arg[3]
           /\ ValidOpcode(last.arg[2].opcode))
          => proto_alu.accumulator =
                 ExecuteAluValue(AluOpOf(last.arg[2].opcode), last.arg[1],
                                 Wd(last.arg[2].address)).result)

\* four clocks with SUB 65535 from Idle and accumulator 0: 0xFFFF0001, Idle
C40_Witness ==
    /\ last.op = "proto_alu.clock"
    /\ steps = 4
    /\ proto_alu.state = "Idle"
    /\ last.arg = <<Wd(0), [opcode |-> 2, address |-> 65535, flags |-> 0], TRUE>>
    /\ proto_alu.accumulator = W(65535, 1)
    /\ proto_alu.flags.carry

====
